---- MODULE Spec2Model ----
(***************************************************************************)
(* Model of the agent orchestration core of obsidian-copilot-plus:         *)
(*   - AgentChainRunner.run / runReActLoop / streamModelResponse and the   *)
(*     reasoning narrator (src/LLMProviders/chainRunner/AgentChainRunner)  *)
(*   - ToolRegistry (src/tools/ToolRegistry.ts)                            *)
(* One run is a single-threaded cooperative computation: every action of   *)
(* the run is the synchronous code between two awaits.  The narrator's     *)
(* interval callback, the cancellation signal and the clock only move at   *)
(* the awaits.                                                             *)
(***************************************************************************)
EXTENDS Integers, Sequences, FiniteSets, TLC

\* ------------------------------------------------------------------ bounds
\* largest configured autonomousAgentMaxIterations explored
MaxIterations == 2
\* largest number of tool calls the model requests in the course of one run
MaxToolCalls == 2
\* AGENT_LOOP_TIMEOUT_MS expressed in the clock's units; the clock is followed
\* from the start of the loop up to this deadline
LoopTimeout == 1

VARIABLES
    \* ---- run(): control and inputs
    pc,                 \* position of run()/runReActLoop
    userMessage,        \* the request run() was called with
    aborted,            \* abortController.signal.aborted
    now,                \* Date.now()
    loopStartTime,
    isVaultQA,          \* isVaultQAMode of this run
    maxIterations,
    iteration,
    availableTools,     \* the run's resolved tool names (AgentLoopDeps.availableTools)
    boundTools,         \* the tools bound to the model, "unbound" in QA mode
    messages,           \* the run's ordered message list
    \* ---- streamModelResponse: what the stream has delivered so far
    chunkCalls,         \* tool calls accumulated from the chunks
    chunkText,          \* TRUE when a text delta has been delivered
    \* ---- tool loop
    toolCalls,          \* the tool calls of the current iteration
    tcIndex,            \* index of the tool call the for-loop is at
    curExpansion,       \* preExpandedTerms of the current call is defined
    \* ---- narrator
    status,             \* reasoningState.status
    steps,              \* reasoningState.steps (rolling window)
    allReasoningSteps,  \* full history
    timerActive,        \* reasoningTimerInterval # null
    abortHandledByTimer,
    \* ---- what the run has produced
    lastUpdate,         \* last message pushed through updateCurrentAiMessage
    responses,          \* calls of handleResponse, in order
    errorNotices,       \* calls of handleError
    result,             \* value run() returned
    thrown,             \* TRUE when run() rejected
    \* ---- observation of the run (history)
    modelCalls,         \* number of boundModel.stream calls started
    toolExecs,          \* number of executeSequentialToolCall calls started
    everyCallHadTools,  \* every model response so far carried tool calls
    updateAfterTimerAbort, \* the loop pushed through onUpdate after the tick handled the abort
    abortAtStart,       \* the signal was set before any model response had arrived
    lastFailure,        \* what failed last in this iteration: "tool", "notFound"
                        \* (tool), "expansion", "malformed" (function call) or "none"
    \* ---- sources
    collectedSources,   \* runReActLoop's collectedSources
    responseSources,    \* the sources argument of each handleResponse call, in order
    \* ---- ToolRegistry
    tools,              \* Map<string, ToolDefinition> in insertion order
    lastOp,             \* the last registry call, its inputs and what it returned
    \* ---- MCPManager
    mcp                 \* the manager's fields and the position of initialize()

runVars == <<pc, userMessage, aborted, now, loopStartTime, isVaultQA, maxIterations, iteration,
             availableTools, boundTools, messages, chunkCalls, chunkText, toolCalls,
             tcIndex, curExpansion, status, steps, allReasoningSteps, timerActive,
             abortHandledByTimer, lastUpdate, responses, errorNotices, result, thrown,
             modelCalls, toolExecs, everyCallHadTools,
             updateAfterTimerAbort, abortAtStart, lastFailure, collectedSources,
             responseSources>>

registryVars == <<tools, lastOp, mcp>>

vars == <<runVars, registryVars>>

\* ====================================================== ToolRegistry.ts
\* identifiers that get registered, and one that never is
RegisteredIds == {"localSearch", "readNote"}
ToolIds == RegisteredIds \cup {"ghost"}
Permissions == {"unset", "read", "write", "admin"}
ArgKeys == {"query", "limit"}
ArgTypes == {"string", "number"}

\* the zod object schema of a tool: key -> [type, required]
StrictSchema == [query |-> [type |-> "string", required |-> TRUE],
                 limit |-> [type |-> "number", required |-> FALSE]]
LaxSchema == [query |-> [type |-> "string", required |-> FALSE],
              limit |-> [type |-> "number", required |-> FALSE]]
SchemaOf(id) == IF id = "localSearch" THEN StrictSchema ELSE LaxSchema

\* ToolDefinition: the metadata fields the registry reads, and the schema
ToolDefinitions ==
    [id : RegisteredIds,
     category : {"search", "mcp"},
     isAlwaysEnabled : BOOLEAN,
     requiresVault : BOOLEAN,
     permission : Permissions,
     allowsAnnotatedOnly : BOOLEAN,
     isPlusOnly : BOOLEAN]

\* definitions the registry operations are exercised with
CatalogDefs ==
    {d \in ToolDefinitions :
        d.permission = "unset" /\ ~d.allowsAnnotatedOnly /\ ~d.isPlusOnly}

\* largest number of definitions given to one registerAll call
MaxBatch == 2

\* the batches registerAll is exercised with
BatchDefs == {d \in CatalogDefs : d.category = "search" /\ ~d.requiresVault}
Batches == UNION {[1..n -> BatchDefs] : n \in 0..MaxBatch}

\* definitions the permission check is exercised with
PermissionDefs ==
    {d \in ToolDefinitions :
        d.id = "localSearch" /\ d.category = "search" /\ ~d.isAlwaysEnabled}

PermissionContexts ==
    [hasPlusLicense : BOOLEAN, vaultAvailable : BOOLEAN,
     hasWritePermission : BOOLEAN, isAnnotatedFile : BOOLEAN]

\* argument objects: a partial map from keys to the type of the value given
ArgObjects == UNION {[ks -> ArgTypes] : ks \in SUBSET ArgKeys}

\* this.tools.get(id): position of id in the map, 0 when absent
IndexOf(reg, id) ==
    IF \E i \in 1..Len(reg) : reg[i].id = id
    THEN CHOOSE i \in 1..Len(reg) : reg[i].id = id
    ELSE 0

isRegistered(reg, id) == IndexOf(reg, id) # 0

\* (variant: a definition is added whether or not its id is registered)
register_AlwaysAppends(reg, def) == Append(reg, def)

\* Map.set: an existing key keeps its position, a new key goes last
register(reg, def) ==
    IF isRegistered(reg, def.id)
    THEN [reg EXCEPT ![IndexOf(reg, def.id)] = def]
    ELSE Append(reg, def)

\* definitions.forEach((def) => this.register(def))
RECURSIVE registerAll(_, _)
registerAll(reg, definitions) ==
    IF definitions = <<>> THEN reg
    ELSE registerAll(register(reg, Head(definitions)), Tail(definitions))

\* getToolDefinition(id) as a list: empty when id is not registered
getToolDefinition(reg, id) == SelectSeq(reg, LAMBDA d : d.id = id)

IsNot(id, d) == d.id # id
IsMCP(d) == d.category = "mcp"
IsBuiltin(d) == d.category # "mcp"

unregister(reg, id) == SelectSeq(reg, LAMBDA d : IsNot(id, d))
clear(reg) == <<>>
\* (variant: clearBuiltins empties the registry)
clearBuiltins_RemovesAll(reg) == <<>>

clearBuiltins(reg) == SelectSeq(reg, IsMCP)
\* (variant: clearMCPTools removes nothing)
clearMCPTools_KeepsAll(reg) == reg

clearMCPTools(reg) == SelectSeq(reg, IsBuiltin)

\* (variant: an always-enabled tool is pushed without the vault test)
EnabledFor_AlwaysSkipsVault(d, enabledToolIds, vaultAvailable) ==
    IF d.isAlwaysEnabled
    THEN TRUE
    ELSE d.id \in enabledToolIds /\ (~d.requiresVault \/ vaultAvailable)

\* the body of the for-loop of getEnabledTools: is this definition pushed
EnabledFor(d, enabledToolIds, vaultAvailable) ==
    IF d.isAlwaysEnabled
    THEN (~d.requiresVault \/ vaultAvailable)
    ELSE d.id \in enabledToolIds /\ (~d.requiresVault \/ vaultAvailable)

RECURSIVE getEnabledTools(_, _, _)
getEnabledTools(reg, enabledToolIds, vaultAvailable) ==
    IF reg = <<>> THEN <<>>
    ELSE LET rest == getEnabledTools(Tail(reg), enabledToolIds, vaultAvailable)
         IN IF EnabledFor(Head(reg), enabledToolIds, vaultAvailable)
            THEN <<Head(reg).id>> \o rest
            ELSE rest

\* (variant: the permission level is tested before the vault requirement)
checkPermission_PermissionFirst(reg, toolId, context) ==
    IF ~isRegistered(reg, toolId)
    THEN [allowed |-> FALSE, reason |-> "not found", requiredPermission |-> "none"]
    ELSE LET metadata == reg[IndexOf(reg, toolId)]
             requiredPermission ==
                 IF metadata.permission = "unset" THEN "read" ELSE metadata.permission
         IN IF requiredPermission = "write" /\ ~context.hasWritePermission
            THEN [allowed |-> FALSE, reason |-> "Tool requires write permission",
                  requiredPermission |-> "write"]
            ELSE IF requiredPermission = "admin" /\ ~context.hasWritePermission
            THEN [allowed |-> FALSE, reason |-> "Tool requires admin permission",
                  requiredPermission |-> "admin"]
            ELSE IF metadata.requiresVault /\ ~context.vaultAvailable
            THEN [allowed |-> FALSE, reason |-> "Tool requires vault access",
                  requiredPermission |-> metadata.permission]
            ELSE IF metadata.allowsAnnotatedOnly /\ ~context.isAnnotatedFile
            THEN [allowed |-> FALSE,
                  reason |-> "Tool can only operate on annotated/selected files",
                  requiredPermission |-> metadata.permission]
            ELSE [allowed |-> TRUE, reason |-> "",
                  requiredPermission |-> metadata.permission]

checkPermission(reg, toolId, context) ==
    IF ~isRegistered(reg, toolId)
    THEN [allowed |-> FALSE, reason |-> "not found", requiredPermission |-> "none"]
    ELSE LET metadata == reg[IndexOf(reg, toolId)]
             requiredPermission ==
                 IF metadata.permission = "unset" THEN "read" ELSE metadata.permission
         IN IF metadata.requiresVault /\ ~context.vaultAvailable
            THEN [allowed |-> FALSE, reason |-> "Tool requires vault access",
                  requiredPermission |-> metadata.permission]
            ELSE IF requiredPermission = "write" /\ ~context.hasWritePermission
            THEN [allowed |-> FALSE, reason |-> "Tool requires write permission",
                  requiredPermission |-> "write"]
            ELSE IF requiredPermission = "admin" /\ ~context.hasWritePermission
            THEN [allowed |-> FALSE, reason |-> "Tool requires admin permission",
                  requiredPermission |-> "admin"]
            ELSE IF metadata.allowsAnnotatedOnly /\ ~context.isAnnotatedFile
            THEN [allowed |-> FALSE,
                  reason |-> "Tool can only operate on annotated/selected files",
                  requiredPermission |-> metadata.permission]
            ELSE [allowed |-> TRUE, reason |-> "",
                  requiredPermission |-> metadata.permission]

\* schema.safeParse(args).success for a zod object schema
safeParse(schema, args) ==
    \A k \in DOMAIN schema :
        /\ schema[k].required => k \in DOMAIN args
        /\ k \in DOMAIN args => args[k] = schema[k].type

\* what the handler does once called
HandlerOutcomes == {"ok", "error", "timeout"}

\* (variant: the handler is called before the tool is looked up)
executeTool_CallsBeforeLookup(reg, toolId, args, outcome) ==
    IF ~isRegistered(reg, toolId)
    THEN [success |-> FALSE, error |-> "not found", hasTime |-> FALSE, invocations |-> 1]
    ELSE IF ~safeParse(SchemaOf(toolId), args)
    THEN [success |-> FALSE, error |-> "Invalid arguments:", hasTime |-> FALSE,
          invocations |-> 0]
    ELSE IF outcome = "ok"
    THEN [success |-> TRUE, error |-> "", hasTime |-> TRUE, invocations |-> 1]
    ELSE IF outcome = "timeout"
    THEN [success |-> FALSE, error |-> "timed out", hasTime |-> TRUE, invocations |-> 1]
    ELSE [success |-> FALSE, error |-> "handler error", hasTime |-> TRUE,
          invocations |-> 1]

\* (variant: the arguments are not validated)
executeTool_NoValidation(reg, toolId, args, outcome) ==
    IF ~isRegistered(reg, toolId)
    THEN [success |-> FALSE, error |-> "not found", hasTime |-> FALSE, invocations |-> 0]
    ELSE IF outcome = "ok"
    THEN [success |-> TRUE, error |-> "", hasTime |-> TRUE, invocations |-> 1]
    ELSE IF outcome = "timeout"
    THEN [success |-> FALSE, error |-> "timed out", hasTime |-> TRUE, invocations |-> 1]
    ELSE [success |-> FALSE, error |-> "handler error", hasTime |-> TRUE,
          invocations |-> 1]

\* executeTool: the returned ToolExecutionResult, and how often the handler ran
executeTool(reg, toolId, args, outcome) ==
    IF ~isRegistered(reg, toolId)
    THEN [success |-> FALSE, error |-> "not found", hasTime |-> FALSE, invocations |-> 0]
    ELSE IF ~safeParse(SchemaOf(toolId), args)
    THEN [success |-> FALSE, error |-> "Invalid arguments:", hasTime |-> FALSE,
          invocations |-> 0]
    ELSE IF outcome = "ok"
    THEN [success |-> TRUE, error |-> "", hasTime |-> TRUE, invocations |-> 1]
    ELSE IF outcome = "timeout"
    THEN [success |-> FALSE, error |-> "timed out", hasTime |-> TRUE, invocations |-> 1]
    ELSE [success |-> FALSE, error |-> "handler error", hasTime |-> TRUE,
          invocations |-> 1]

NoOp == [op |-> "none"]

Register(d) ==
    /\ tools' = register(tools, d)
    /\ lastOp' = [op |-> "register", id |-> d.id, def |-> d]
    /\ UNCHANGED <<runVars, mcp>>

RegisterAll(definitions) ==
    /\ tools' = registerAll(tools, definitions)
    /\ lastOp' = [op |-> "registerAll", defs |-> definitions]
    /\ UNCHANGED <<runVars, mcp>>

Unregister(id) ==
    /\ tools' = unregister(tools, id)
    /\ lastOp' = [op |-> "unregister", id |-> id, res |-> isRegistered(tools, id)]
    /\ UNCHANGED <<runVars, mcp>>

Clear ==
    /\ tools' = clear(tools)
    /\ lastOp' = [op |-> "clear"]
    /\ UNCHANGED <<runVars, mcp>>

ClearBuiltins ==
    /\ tools' = clearBuiltins(tools)
    /\ lastOp' = [op |-> "clearBuiltins"]
    /\ UNCHANGED <<runVars, mcp>>

ClearMCPTools ==
    /\ tools' = clearMCPTools(tools)
    /\ lastOp' = [op |-> "clearMCPTools"]
    /\ UNCHANGED <<runVars, mcp>>

CheckPermission(id, ctx) ==
    /\ lastOp' = [op |-> "checkPermission", id |-> id, ctx |-> ctx,
                  res |-> checkPermission(tools, id, ctx)]
    /\ UNCHANGED <<tools, runVars, mcp>>

GetEnabledTools(ids, vault) ==
    /\ lastOp' = [op |-> "getEnabledTools", ids |-> ids, vault |-> vault,
                  res |-> getEnabledTools(tools, ids, vault)]
    /\ UNCHANGED <<tools, runVars, mcp>>

ExecuteTool(id, args, outcome) ==
    /\ lastOp' = [op |-> "executeTool", id |-> id, args |-> args,
                  res |-> executeTool(tools, id, args, outcome)]
    /\ UNCHANGED <<tools, runVars, mcp>>

\* ======================================================= MCPManager.ts
\* largest number of initialize() calls explored
MaxInits == 2

\* the servers a configuration names, and the tools each of them lists
Servers == {"s1", "s2"}
ServerTools(s) == IF s = "s1" THEN <<"t">> ELSE <<"t", "u">>

\* the configuration strings: blank, not JSON, or an object with these keys
MCPConfigs ==
    {[blank |-> TRUE, valid |-> FALSE, servers |-> {}],
     [blank |-> FALSE, valid |-> FALSE, servers |-> {}]}
    \cup {[blank |-> FALSE, valid |-> TRUE, servers |-> ss] : ss \in SUBSET Servers}

\* `mcp_${serverName}_${mcpTool.name}`
MCPToolId(s, t) == "mcp_" \o s \o "_" \o t

\* the ToolDefinition initialize() registers for a tool of a server
MCPToolDef(s, t) ==
    [id |-> MCPToolId(s, t), category |-> "mcp", isAlwaysEnabled |-> TRUE,
     requiresVault |-> FALSE, permission |-> "unset",
     allowsAnnotatedOnly |-> FALSE, isPlusOnly |-> FALSE]

\* the for-loop of initialize() over the tools a server lists: a tool whose
\* schema cannot be built is skipped
RECURSIVE registerServerTools(_, _, _, _)
registerServerTools(reg, s, listed, failing) ==
    IF listed = <<>> THEN reg
    ELSE registerServerTools(
             IF Head(listed) \in failing THEN reg
             ELSE register(reg, MCPToolDef(s, Head(listed))),
             s, Tail(listed), failing)

\* the identifiers of the mcp tools a registry holds
MCPIds(reg) == {reg[i].id : i \in {j \in 1..Len(reg) : IsMCP(reg[j])}}

\* the manager after construction
MCPIdle ==
    [phase |-> "idle", config |-> [blank |-> TRUE, valid |-> FALSE, servers |-> {}],
     clients |-> {}, registeredToolIds |-> {}, serverStatuses |-> <<>>,
     task |-> <<>>, isInitialized |-> FALSE, calls |-> 0,
     ret |-> [servers |-> <<>>, configError |-> FALSE]]

\* initialize(), line 144, and disconnect(), lines 344-360: the registry is
\* cleared of mcp tools and the clients are told to close
MCPInitialize(config) ==
    /\ mcp.phase = "idle"
    /\ mcp.calls < MaxInits
    /\ tools' = clearMCPTools(tools)
    /\ mcp' = [mcp EXCEPT !.phase = "disconnecting", !.config = config,
                          !.registeredToolIds = {}, !.calls = @ + 1]
    /\ UNCHANGED <<runVars, lastOp>>

\* disconnect(), lines 360-362, and initialize(), lines 145-180: the clients
\* have closed; the configuration is read and the servers are connected to
MCPDisconnected ==
    /\ mcp.phase = "disconnecting"
    /\ LET cleared == [mcp EXCEPT !.clients = {}, !.isInitialized = FALSE,
                                  !.serverStatuses = <<>>, !.task = <<>>]
           config == mcp.config
       IN IF config.blank \/ ~config.valid \/ config.servers = {}
          THEN mcp' = [cleared EXCEPT
                          !.phase = "idle",
                          !.ret = [servers |-> <<>>,
                                   configError |-> ~config.blank /\ ~config.valid]]
          ELSE mcp' = [cleared EXCEPT
                          !.phase = "connecting",
                          !.serverStatuses =
                              [s \in config.servers |->
                                  [status |-> "connecting", tools |-> <<>>]],
                          !.task = [s \in config.servers |-> "connecting"]]
    /\ UNCHANGED <<runVars, tools, lastOp>>

\* initialize(), lines 183-185 and 256-260: connectToServer has settled
MCPConnectDone(s, ok) ==
    /\ mcp.phase = "connecting"
    /\ s \in DOMAIN mcp.task
    /\ mcp.task[s] = "connecting"
    /\ IF ok
       THEN mcp' = [mcp EXCEPT !.clients = @ \cup {s}, !.task[s] = "listing"]
       ELSE mcp' = [mcp EXCEPT !.serverStatuses[s] = [status |-> "error", tools |-> <<>>],
                               !.task[s] = "done"]
    /\ UNCHANGED <<runVars, tools, lastOp>>

\* initialize(), lines 188-260: client.listTools has settled; the tools whose
\* schema can be built are registered
MCPListDone(s, ok, failing) ==
    /\ mcp.phase = "connecting"
    /\ s \in DOMAIN mcp.task
    /\ mcp.task[s] = "listing"
    /\ IF ok
       THEN LET registered == SelectSeq(ServerTools(s), LAMBDA t : t \notin failing)
            IN /\ tools' = registerServerTools(tools, s, ServerTools(s), failing)
               /\ mcp' = [mcp EXCEPT
                             !.registeredToolIds =
                                 @ \cup {MCPToolId(s, registered[i]) :
                                            i \in 1..Len(registered)},
                             !.serverStatuses[s] =
                                 [status |-> "connected", tools |-> registered],
                             !.task[s] = "done"]
       ELSE /\ mcp' = [mcp EXCEPT
                          !.serverStatuses[s] = [status |-> "error", tools |-> <<>>],
                          !.task[s] = "done"]
            /\ UNCHANGED tools
    /\ UNCHANGED <<runVars, lastOp>>

\* initialize(), lines 264-267: every server has settled
MCPInitializeEnd ==
    /\ mcp.phase = "connecting"
    /\ \A s \in DOMAIN mcp.task : mcp.task[s] = "done"
    /\ mcp' = [mcp EXCEPT !.phase = "idle", !.isInitialized = TRUE,
                          !.ret = [servers |-> mcp.serverStatuses,
                                   configError |-> FALSE]]
    /\ UNCHANGED <<runVars, tools, lastOp>>

\* ================================================= AgentChainRunner.ts
\* ---------------------------------------------------------- mode detection
\* texts are sequences of one-character strings
UpperCase == <<"A","B","C","D","E","F","G","H","I","J","K","L","M",
               "N","O","P","Q","R","S","T","U","V","W","X","Y","Z">>
LowerCase == <<"a","b","c","d","e","f","g","h","i","j","k","l","m",
               "n","o","p","q","r","s","t","u","v","w","x","y","z">>

\* String.prototype.toLowerCase, one character
LowerChar(c) ==
    IF \E i \in 1..26 : UpperCase[i] = c
    THEN LowerCase[CHOOSE i \in 1..26 : UpperCase[i] = c]
    ELSE c

toLowerCase(text) == [i \in 1..Len(text) |-> LowerChar(text[i])]

\* String.prototype.includes
includes(text, keyword) ==
    \E i \in 0..(Len(text) - Len(keyword)) :
        SubSeq(text, i + 1, i + Len(keyword)) = keyword
vaultQaKeywords ==
    {<<"w", "h", "a", "t", " ", "d", "o", "e", "s", " ", "m", "y", " ", "n", "o", "t", "e">>,
     <<"w", "h", "a", "t", " ", "d", "o", "e", "s", " ", "m", "y", " ", "n", "o", "t", "e", "s">>,
     <<"i", "n", " ", "m", "y", " ", "v", "a", "u", "l", "t">>,
     <<"v", "a", "u", "l", "t", " ", "q", "a">>,
     <<"v", "a", "u", "l", "t", "q", "a">>,
     <<"s", "e", "a", "r", "c", "h", " ", "m", "y", " ", "n", "o", "t", "e", "s">>,
     <<"f", "i", "n", "d", " ", "i", "n", " ", "m", "y", " ", "n", "o", "t", "e", "s">>}

\* the user messages a run is started with: the L5_USER layer text (empty when
\* the envelope has no such layer), the message text, whether the request
\* passes AgentInputSchema and whether it carries a context envelope
UserMessages ==
    {[l5 |-> <<>>, message |-> <<"W", "h", "a", "t", " ", "d", "o", "e", "s", " ", "m", "y", " ", "n", "o", "t", "e", " ", "o", "n", " ", "h", "i", "k", "i", "n", "g", " ", "s", "a", "y">>,
      valid |-> TRUE, hasEnvelope |-> TRUE],
     [l5 |-> <<"S", "E", "A", "R", "C", "H", " ", "M", "Y", " ", "N", "O", "T", "E", "S">>, message |-> <<"h", "i">>,
      valid |-> TRUE, hasEnvelope |-> TRUE],
     [l5 |-> <<>>, message |-> <<"V", "a", "u", "l", "t", "Q", "A">>,
      valid |-> TRUE, hasEnvelope |-> TRUE],
     [l5 |-> <<"h", "i">>, message |-> <<"i", "n", " ", "m", "y", " ", "v", "a", "u", "l", "t">>,
      valid |-> TRUE, hasEnvelope |-> TRUE],
     [l5 |-> <<>>, message |-> <<"h", "i">>,
      valid |-> FALSE, hasEnvelope |-> TRUE],
     [l5 |-> <<>>, message |-> <<"h", "i">>,
      valid |-> TRUE, hasEnvelope |-> FALSE]}

\* l5User?.text || userMessage.message || ""
RawQuery(um) ==
    IF um.l5 # <<>> THEN um.l5 ELSE um.message

\* (variant: the query is matched as typed)
isVaultQAMode_CaseSensitive(um) ==
    \E keyword \in vaultQaKeywords : includes(RawQuery(um), keyword)

isVaultQAMode(um) ==
    \E keyword \in vaultQaKeywords :
        includes(toLowerCase(RawQuery(um)), keyword)

\* ------------------------------------------------------------- narrator
\* reasoningState.steps keeps the last WindowSize steps
WindowSize == 4

Step(summary, toolName) == [summary |-> summary, toolName |-> toolName]

\* addReasoningStep: the full history after the call
addToHistory(all, step) == Append(all, step)

\* (variant: the window is never shifted)
addReasoningStep_NeverShifts(window, step, detailedOnly) ==
    IF detailedOnly THEN window ELSE Append(window, step)

\* addReasoningStep: the rolling window after the call
addReasoningStep(window, step, detailedOnly) ==
    IF detailedOnly THEN window
    ELSE LET pushed == Append(window, step)
         IN IF Len(pushed) > WindowSize THEN Tail(pushed) ELSE pushed

\* serializeReasoningBlock: the empty string for an idle state, otherwise
\* markup carrying the status and the steps
NoBlock == [status |-> "idle", steps |-> <<>>]
serializeReasoningBlock(st, stepList) ==
    IF st = "idle" THEN NoBlock ELSE [status |-> st, steps |-> stepList]

buildReasoningBlockMarkup(st, window, all) ==
    IF st \in {"complete", "collapsed"}
    THEN serializeReasoningBlock(st, all)
    ELSE serializeReasoningBlock(st, window)

\* a text shown to the user: reasoningBlock ? reasoningBlock + "\n\n" + text : text
Text(block, text) == [block |-> block, text |-> text]
EmptyText == Text(NoBlock, "")
Pending == Text(NoBlock, "<pending>")
IsEmptyText(t) == t.block = NoBlock /\ t.text = ""

\* ------------------------------------------------------------- messages
Msg(role, calls, id, name, payload) ==
    [role |-> role, calls |-> calls, id |-> id, name |-> name, payload |-> payload]

\* the tool call a model response carries at position k: at odd positions a
\* localSearch call with an id, at even positions a readNote call without id
ToolCallAt(k) ==
    IF k % 2 = 1 THEN [id |-> k, name |-> "localSearch"]
    ELSE [id |-> 0, name |-> "readNote"]

\* generateToolCallId(): an id no model call id equals
generateToolCallId(k) == 100 + k

\* (variant: the id of the call is used as it came, missing or not)
createToolResultMessage_KeepsMissingId(tc, k, payload) ==
    Msg("tool", <<>>, tc.id, tc.name, payload)

\* createToolResultMessage(tc.id || generateToolCallId(), tc.name, result.result)
createToolResultMessage(tc, k, payload) ==
    Msg("tool", <<>>, IF tc.id # 0 THEN tc.id ELSE generateToolCallId(k), tc.name, payload)

\* executeSequentialToolCall: what a call of a tool can come to.  A tool that
\* is not among the run's tools is not found; failures are returned, not thrown
ToolOutcomes(tc, runTools) ==
    IF \E i \in 1..Len(runTools) : runTools[i] = tc.name
    THEN {"ok", "invalidArgs", "handlerError", "timeout"}
    ELSE {"notFound"}

\* result.result of executeSequentialToolCall: the tool's output, or the text
\* of the failure
ToolResultText(outcome) == IF outcome = "ok" THEN "result" ELSE "failure text"

\* -------------------------------------------------------------- sources
\* largest number of documents in one localSearch payload explored
MaxDocs == 2

\* titles and paths are texts; a field that is missing or empty is the empty
\* text, a score that is missing is 0
Untitled == <<"U", "n", "t", "i", "t", "l", "e", "d">>
DocTitles == {<<>>, <<"G">>}
DocPaths == {<<>>, <<"a">>, <<"A">>}
DocScores == {0, 1, 2}
Documents == [title : DocTitles, path : DocPaths, score : DocScores]
DocumentLists == UNION {[1..n -> Documents] : n \in 0..MaxDocs}

\* result.result of a tool call as JSON.parse sees it: whether it parses, its
\* type field, whether its documents field is an array, and the documents
SearchPayload(parses, type, isArray, documents) ==
    [parses |-> parses, type |-> type, isArray |-> isArray, documents |-> documents]
SampleDocuments == <<[title |-> <<"G">>, path |-> <<"a">>, score |-> 1]>>
Payloads ==
    {SearchPayload(TRUE, "local_search", TRUE, d) : d \in DocumentLists}
    \cup {SearchPayload(TRUE, "other", TRUE, SampleDocuments),
          SearchPayload(TRUE, "local_search", FALSE, <<>>),
          SearchPayload(FALSE, "", FALSE, <<>>)}
ToolResults == [success : BOOLEAN, result : Payloads]

\* processLocalSearchResult, lines 1128-1132: the source made of a document
sourceOf(doc) ==
    [title |-> IF doc.title # <<>> THEN doc.title
               ELSE IF doc.path # <<>> THEN doc.path ELSE Untitled,
     path |-> IF doc.path # <<>> THEN doc.path ELSE doc.title,
     score |-> doc.score]

\* (variant: the type field of the payload is not looked at)
processLocalSearchResult_AnyType(toolResult) ==
    IF toolResult.success /\ toolResult.result.parses /\ toolResult.result.isArray
    THEN [i \in 1..Len(toolResult.result.documents) |->
             sourceOf(toolResult.result.documents[i])]
    ELSE <<>>

\* processLocalSearchResult, lines 1098-1149: the sources it returns
processLocalSearchResult(toolResult) ==
    IF ~toolResult.success THEN <<>>
    ELSE IF ~toolResult.result.parses THEN <<>>
    ELSE IF toolResult.result.type = "local_search" /\ toolResult.result.isArray
    THEN [i \in 1..Len(toolResult.result.documents) |->
             sourceOf(toolResult.result.documents[i])]
    ELSE <<>>

\* runReActLoop, lines 932-934: collectedSources.push(...processed.sources)
collectSources(collected, tcName, toolResult) ==
    IF tcName = "localSearch" /\ toolResult.success
    THEN collected \o processLocalSearchResult(toolResult)
    ELSE collected

\* what the n-th tool call of a run returns when it succeeds: the later
\* searches find the note of the first one again, under a path that differs
\* in case and with a higher score, and a note without path
SearchResultAt(n) ==
    IF n % 2 = 1
    THEN SearchPayload(TRUE, "local_search", TRUE, SampleDocuments)
    ELSE SearchPayload(TRUE, "local_search", TRUE,
                       <<[title |-> <<"G">>, path |-> <<"A">>, score |-> 2],
                         [title |-> <<"G">>, path |-> <<>>, score |-> 0]>>)

\* deduplicateSources (utils/toolExecution): one entry per lowercase
\* path-or-title key, the one with the highest score, keys in first-seen order
sourceKey(source) ==
    toLowerCase(IF source.path # <<>> THEN source.path ELSE source.title)

putSource(unique, source) ==
    IF \E i \in 1..Len(unique) : sourceKey(unique[i]) = sourceKey(source)
    THEN [i \in 1..Len(unique) |->
             IF sourceKey(unique[i]) = sourceKey(source) /\ source.score > unique[i].score
             THEN source ELSE unique[i]]
    ELSE Append(unique, source)

RECURSIVE deduplicateInto(_, _)
deduplicateInto(unique, sources) ==
    IF sources = <<>> THEN unique
    ELSE deduplicateInto(putSource(unique, Head(sources)), Tail(sources))

deduplicateSources(sources) == deduplicateInto(<<>>, sources)

\* the sources argument of handleResponse: a list, or undefined
NoSources == [defined |-> FALSE, list |-> <<>>]

\* (variant: the collected sources are handed over as they are)
handedSources_NotDeduplicated(collected) ==
    IF Len(collected) > 0 THEN [defined |-> TRUE, list |-> collected] ELSE NoSources

\* run(), lines 463 and 479: uniqueSources.length > 0 ? uniqueSources : undefined
handedSources(collected) ==
    LET uniqueSources == deduplicateSources(collected)
    IN IF Len(uniqueSources) > 0 THEN [defined |-> TRUE, list |-> uniqueSources]
       ELSE NoSources

\* (variant: stopReasoningTimer leaves the interval running)
stopReasoningTimer_LeavesInterval(interval) == interval

\* stopReasoningTimer, lines 296-302: the interval is cleared and forgotten
stopReasoningTimer(interval) == FALSE

\* the pieces of run() and runReActLoop that several paths share
awaitPoints == {"streaming", "expanding", "executing"}

\* (variant: run() does not look at abortHandledByTimer)
FinishRun_IgnoresTimerFlag(finalResponse) ==
    /\ pc' = "returned"
    /\ responses' = Append(responses, finalResponse)
    /\ responseSources' = Append(responseSources, handedSources(collectedSources))
    /\ result' = finalResponse
    /\ UNCHANGED <<errorNotices, thrown>>

\* run(), lines 456-485: what run() does with the loop's result
FinishRun(finalResponse) ==
    /\ pc' = "returned"
    /\ IF abortHandledByTimer
       THEN /\ result' = EmptyText
            /\ UNCHANGED <<responses, responseSources>>
       ELSE /\ responses' = Append(responses, finalResponse)
            /\ responseSources' = Append(responseSources, handedSources(collectedSources))
            /\ result' = finalResponse
    /\ UNCHANGED <<errorNotices, thrown>>

\* (variant: the time budget is looked at before the signal)
exitResponse_TimeFirst(isAborted, handledByTimer, timedOut, reasoningBlock) ==
    IF timedOut THEN Text(reasoningBlock, "time limit")
    ELSE IF isAborted
    THEN IF handledByTimer THEN EmptyText
         ELSE Text(reasoningBlock, "The response was interrupted.")
    ELSE Text(reasoningBlock, "maximum number of tool calls")

\* runReActLoop, lines 968-1009: what the loop returns when it ends without
\* an answer of the model
exitResponse(isAborted, handledByTimer, timedOut, reasoningBlock) ==
    IF isAborted
    THEN IF handledByTimer THEN EmptyText
         ELSE Text(reasoningBlock, "The response was interrupted.")
    ELSE IF timedOut THEN Text(reasoningBlock, "time limit")
         ELSE Text(reasoningBlock, "maximum number of tool calls")

\* runReActLoop, lines 963-1009: the exit after the while loop
ExitLoop ==
    LET reasoningBlock == buildReasoningBlockMarkup("complete", steps, allReasoningSteps)
        timedOut == (now - loopStartTime) >= LoopTimeout
        finalResponse == exitResponse(aborted, abortHandledByTimer, timedOut, reasoningBlock)
    IN /\ timerActive' = stopReasoningTimer(timerActive)
       /\ status' = "complete"
       /\ FinishRun(finalResponse)
       /\ UNCHANGED <<steps, allReasoningSteps, abortHandledByTimer, lastUpdate,
                      updateAfterTimerAbort>>

\* runReActLoop, lines 817-853: the response without tool calls is the answer.
\* The narrator is stopped before the answer is shown piece by piece, so the
\* pieces and the final push of line 846 are one step
FinalAnswer(content) ==
    LET reasoningBlock == buildReasoningBlockMarkup("complete", steps, allReasoningSteps)
        finalResponse == Text(reasoningBlock, content)
    IN /\ timerActive' = stopReasoningTimer(timerActive)
       /\ status' = "complete"
       /\ messages' = Append(messages, Msg("assistant", <<>>, 0, "", content))
       /\ lastUpdate' = finalResponse
       /\ updateAfterTimerAbort' = (updateAfterTimerAbort \/ abortHandledByTimer)
       /\ FinishRun(finalResponse)
       /\ UNCHANGED <<steps, allReasoningSteps, abortHandledByTimer>>

\* ------------------------------------------------------ variable groups
inputVars == <<userMessage, isVaultQA, maxIterations, loopStartTime, availableTools,
               boundTools>>
envVars == <<aborted, now, abortAtStart>>
streamVars == <<chunkCalls, chunkText>>
forVars == <<toolCalls, tcIndex, curExpansion, collectedSources>>
narratorVars == <<status, steps, allReasoningSteps, timerActive, abortHandledByTimer>>
outputVars == <<lastUpdate, responses, errorNotices, result, thrown, responseSources>>
countVars == <<modelCalls, toolExecs>>

\* --------------------------------------------------------------- run()
NoMessage == [l5 |-> <<>>, message |-> <<>>, valid |-> TRUE, hasEnvelope |-> TRUE]

\* the registry a run finds: localSearch is always enabled and needs the
\* vault, readNote is enabled by the user
BuiltinTools ==
    <<[id |-> "localSearch", category |-> "search", isAlwaysEnabled |-> TRUE,
       requiresVault |-> TRUE, permission |-> "unset",
       allowsAnnotatedOnly |-> FALSE, isPlusOnly |-> FALSE],
      [id |-> "readNote", category |-> "search", isAlwaysEnabled |-> FALSE,
       requiresVault |-> FALSE, permission |-> "unset",
       allowsAnnotatedOnly |-> FALSE, isPlusOnly |-> FALSE]>>

InitRun ==
    /\ pc = "idle"
    /\ userMessage = NoMessage
    /\ aborted = FALSE
    /\ now = 0
    /\ loopStartTime = 0
    /\ isVaultQA = FALSE
    /\ maxIterations = 0
    /\ iteration = 0
    /\ availableTools = <<>>
    /\ boundTools = <<>>
    /\ messages = <<>>
    /\ chunkCalls = <<>>
    /\ chunkText = FALSE
    /\ toolCalls = <<>>
    /\ tcIndex = 0
    /\ curExpansion = FALSE
    /\ status = "idle"
    /\ steps = <<>>
    /\ allReasoningSteps = <<>>
    /\ timerActive = FALSE
    /\ abortHandledByTimer = FALSE
    /\ lastUpdate = Pending
    /\ responses = <<>>
    /\ errorNotices = <<>>
    /\ result = Pending
    /\ thrown = FALSE
    /\ modelCalls = 0
    /\ toolExecs = 0
    /\ everyCallHadTools = TRUE
    /\ updateAfterTimerAbort = FALSE
    /\ abortAtStart = FALSE
    /\ lastFailure = "none"
    /\ responseSources = <<>>

Init ==
    /\ InitRun
    /\ collectedSources = <<>>
    /\ tools = BuiltinTools
    /\ lastOp = NoOp
    /\ mcp = MCPIdle

\* run(), lines 379-454, with prepareAgentConversation and startReasoningTimer,
\* up to the first test of the while loop
Run(um, configuredMax, enabledToolIds, vaultAvailable) ==
    /\ pc = "idle"
    /\ userMessage' = um
    /\ IF ~um.valid
       THEN \* validateAgentInput threw: generic notice, return ""
            /\ errorNotices' = Append(errorNotices, "Invalid input")
            /\ result' = EmptyText
            /\ pc' = "returned"
            /\ UNCHANGED <<isVaultQA, maxIterations, loopStartTime, availableTools,
                           boundTools, messages, narratorVars, lastUpdate, responses,
                           thrown, responseSources>>
       ELSE IF ~um.hasEnvelope
       THEN \* thrown before the try block
            /\ thrown' = TRUE
            /\ pc' = "returned"
            /\ UNCHANGED <<isVaultQA, maxIterations, loopStartTime, availableTools,
                           boundTools, messages, narratorVars, lastUpdate, responses,
                           errorNotices, result, responseSources>>
       ELSE LET qa == isVaultQAMode(um)
                resolved == IF qa THEN <<>>
                            ELSE getEnabledTools(tools, enabledToolIds, vaultAvailable)
                initialStep == Step("initial", "")
            IN /\ isVaultQA' = qa
               /\ availableTools' = resolved
               /\ boundTools' = resolved
               /\ messages' = <<Msg("system", <<>>, 0, "", "systemPrompt"),
                                Msg("user", <<>>, 0, "", "userTurn")>>
               /\ status' = "reasoning"
               /\ steps' = addReasoningStep(<<>>, initialStep, FALSE)
               /\ allReasoningSteps' = addToHistory(<<>>, initialStep)
               /\ timerActive' = TRUE
               /\ abortHandledByTimer' = FALSE
               /\ maxIterations' = IF qa THEN 1 ELSE configuredMax
               /\ loopStartTime' = now
               /\ pc' = "boundary"
               /\ UNCHANGED outputVars
    /\ iteration' = 0
    /\ UNCHANGED <<envVars, streamVars, forVars, countVars, everyCallHadTools,
                   updateAfterTimerAbort, lastFailure, registryVars>>

\* the conditions of the while loop, lines 789-797
\* (variant: the loop never looks at the clock)
loopTimedOut_Never(elapsedTime) == FALSE

loopTimedOut(elapsedTime) == elapsedTime >= LoopTimeout

continueLoop(iter, maxIter, isAborted, elapsedTime) ==
    /\ iter < maxIter
    /\ ~isAborted
    /\ ~loopTimedOut(elapsedTime)

\* runReActLoop, lines 789-806: the iteration boundary
LoopHead ==
    /\ pc = "boundary"
    /\ IF continueLoop(iteration, maxIterations, aborted, now - loopStartTime)
       THEN /\ iteration' = iteration + 1
            /\ modelCalls' = modelCalls + 1
            /\ chunkCalls' = <<>>
            /\ chunkText' = FALSE
            /\ pc' = "streaming"
            /\ lastFailure' = "none"
            /\ UNCHANGED <<narratorVars, outputVars, updateAfterTimerAbort, toolExecs>>
       ELSE /\ ExitLoop
            /\ UNCHANGED <<iteration, streamVars, countVars, lastFailure>>
    /\ UNCHANGED <<inputVars, envVars, forVars, messages, everyCallHadTools,
                   registryVars>>

\* run(), lines 486-514: the catch block
RunCatch(errorName) ==
    /\ timerActive' = stopReasoningTimer(timerActive)
    /\ status' = "collapsed"
    /\ pc' = "returned"
    /\ IF errorName = "AbortError" \/ aborted
       THEN /\ result' = EmptyText
            /\ UNCHANGED <<errorNotices, responses, responseSources>>
       ELSE /\ errorNotices' = Append(errorNotices, errorName)
            /\ responses' = Append(responses, Text(NoBlock, "error"))
            /\ responseSources' = Append(responseSources, NoSources)
            /\ result' = Text(NoBlock, "error")
    /\ UNCHANGED <<steps, allReasoningSteps, abortHandledByTimer, lastUpdate, thrown,
                   updateAfterTimerAbort>>

\* runReActLoop, lines 808-864: the response of the model has arrived
AfterResponse(content, calls) ==
    LET seen == IF isVaultQA THEN <<>> ELSE calls
    IN /\ everyCallHadTools' = (everyCallHadTools /\ calls # <<>>)
       /\ IF seen = <<>>
          THEN /\ FinalAnswer(content)
               /\ UNCHANGED forVars
          ELSE /\ messages' = Append(messages, Msg("assistant", seen, 0, "", content))
               /\ IF iteration > 1 /\ content # ""
                  THEN /\ steps' = addReasoningStep(steps, Step("finding", ""), FALSE)
                       /\ allReasoningSteps' =
                              addToHistory(allReasoningSteps, Step("finding", ""))
                  ELSE UNCHANGED <<steps, allReasoningSteps>>
               /\ toolCalls' = seen
               /\ tcIndex' = 1
               /\ pc' = "toolLoop"
               /\ UNCHANGED <<curExpansion, collectedSources, status, timerActive,
                              abortHandledByTimer, outputVars, updateAfterTimerAbort>>

Content == IF chunkText THEN "text" ELSE ""

\* streamModelResponse, lines 1033-1057: a chunk with a tool call arrives
StreamChunkTool ==
    /\ pc = "streaming"
    /\ ~aborted
    /\ toolExecs + Len(chunkCalls) < MaxToolCalls
    /\ chunkCalls' = Append(chunkCalls, ToolCallAt(Len(chunkCalls) + 1))
    /\ UNCHANGED <<pc, inputVars, envVars, chunkText, forVars, narratorVars, outputVars,
                   countVars, iteration, messages, everyCallHadTools,
                   updateAfterTimerAbort, lastFailure, registryVars>>

\* streamModelResponse: a chunk with a text delta arrives (prose comes before
\* the tool calls)
StreamChunkText ==
    /\ pc = "streaming"
    /\ ~aborted
    /\ ~chunkText
    /\ chunkCalls = <<>>
    /\ chunkText' = TRUE
    /\ UNCHANGED <<pc, inputVars, envVars, chunkCalls, forVars, narratorVars, outputVars,
                   countVars, iteration, messages, everyCallHadTools,
                   updateAfterTimerAbort, lastFailure, registryVars>>

\* streamModelResponse, lines 1059-1080: the stream has ended, or a chunk has
\* arrived after the signal was set and the for-await loop has been left
StreamEnd ==
    /\ pc = "streaming"
    /\ AfterResponse(Content, chunkCalls)
    /\ UNCHANGED <<inputVars, envVars, streamVars, countVars, iteration, lastFailure,
                   registryVars>>

\* the errors a stream ends with: the abort of the request, a transport
\* error, and the error thrown at lines 1037-1041 for a chunk whose finish
\* reason is MALFORMED_FUNCTION_CALL
StreamErrors == {"AbortError", "Error", "MALFORMED_FUNCTION_CALL"}

\* (variant: every error of the stream ends it with the partial answer)
streamCatch_SwallowsAll(errorName, isAborted) == "partial"

\* streamModelResponse, lines 1081-1092: the catch block returns the partial
\* answer for a cancelled request and throws the error again otherwise
streamCatch(errorName, isAborted) ==
    IF errorName = "AbortError" \/ isAborted THEN "partial" ELSE "rethrow"

\* streamModelResponse, lines 1033-1041 and 1081-1092: the stream throws, or
\* a chunk carries the finish reason MALFORMED_FUNCTION_CALL; the signal is
\* set when the request is aborted, and it is tested before the finish reason
StreamError(errorName) ==
    /\ pc = "streaming"
    /\ errorName = "AbortError" => aborted
    /\ errorName = "MALFORMED_FUNCTION_CALL" => ~aborted
    /\ IF streamCatch(errorName, aborted) = "partial"
       THEN AfterResponse(Content, <<>>)
       ELSE /\ RunCatch(errorName)
            /\ everyCallHadTools' = FALSE
            /\ UNCHANGED <<messages, forVars>>
    /\ lastFailure' = IF errorName = "MALFORMED_FUNCTION_CALL" THEN "malformed"
                      ELSE lastFailure
    /\ UNCHANGED <<inputVars, envVars, streamVars, countVars, iteration, registryVars>>

\* runReActLoop, lines 915-926: the narrative step of the call, then the call
StartExecution(tc, expanded) ==
    /\ steps' = addReasoningStep(steps, Step("call", tc.name), FALSE)
    /\ allReasoningSteps' = addToHistory(allReasoningSteps, Step("call", tc.name))
    /\ curExpansion' = expanded
    /\ toolExecs' = toolExecs + 1
    /\ pc' = "executing"

\* does the for-loop over the tool calls go on to the call at index k
nextToolCall(calls, k, isAborted) == k <= Len(calls) /\ ~isAborted

\* runReActLoop, lines 867-884: the head of the for-loop over the tool calls
ToolLoopHead ==
    /\ pc = "toolLoop"
    /\ IF ~nextToolCall(toolCalls, tcIndex, aborted)
       THEN /\ pc' = "boundary"
            /\ UNCHANGED <<steps, allReasoningSteps, curExpansion, toolExecs>>
       ELSE IF toolCalls[tcIndex].name = "localSearch"
       THEN /\ pc' = "expanding"
            /\ UNCHANGED <<steps, allReasoningSteps, curExpansion, toolExecs>>
       ELSE StartExecution(toolCalls[tcIndex], FALSE)
    /\ UNCHANGED <<inputVars, envVars, streamVars, toolCalls, tcIndex, collectedSources,
                   status, timerActive, abortHandledByTimer, outputVars, modelCalls,
                   iteration, messages, everyCallHadTools, updateAfterTimerAbort,
                   lastFailure, registryVars>>

\* runReActLoop, lines 884-926: expander.expand has settled; a failure is
\* swallowed (line 909) and the call is executed either way
ExpandDone(succeeded) ==
    /\ pc = "expanding"
    /\ StartExecution(toolCalls[tcIndex], succeeded)
    /\ lastFailure' = IF succeeded THEN lastFailure ELSE "expansion"
    /\ UNCHANGED <<inputVars, envVars, streamVars, toolCalls, tcIndex, collectedSources,
                   status, timerActive, abortHandledByTimer, outputVars, modelCalls,
                   iteration, messages, everyCallHadTools, updateAfterTimerAbort,
                   registryVars>>

\* (variant: a failed tool call leaves the for-loop)
afterToolCall_LeavesOnFailure(outcome) ==
    IF outcome = "ok" THEN "toolLoop" ELSE "boundary"

\* where the loop goes once a tool call has settled: on to the next call,
\* whatever the outcome
afterToolCall(outcome) == "toolLoop"

\* (variant: the tools of a call are read from the registry when it is made)
callTools_FromRegistry(snapshot, reg) == [i \in 1..Len(reg) |-> reg[i].id]

\* runReActLoop, line 926: the tools executeSequentialToolCall is given are
\* the run's own list, whatever the registry holds by then
callTools(snapshot, reg) == snapshot

\* runReActLoop, lines 926-960: executeSequentialToolCall has settled
ToolDone(outcome) ==
    /\ pc = "executing"
    /\ outcome \in ToolOutcomes(toolCalls[tcIndex], callTools(availableTools, tools))
    /\ LET tc == toolCalls[tcIndex]
           toolResult == [success |-> outcome = "ok", result |-> SearchResultAt(toolExecs)]
       IN /\ collectedSources' = collectSources(collectedSources, tc.name, toolResult)
          /\ steps' = addReasoningStep(steps, Step("result", tc.name), FALSE)
          /\ allReasoningSteps' = addToHistory(allReasoningSteps, Step("result", tc.name))
          /\ messages' = Append(messages,
                                createToolResultMessage(tc, tcIndex, ToolResultText(outcome)))
    /\ tcIndex' = tcIndex + 1
    /\ curExpansion' = FALSE
    /\ lastFailure' = IF outcome = "ok" THEN "none"
                      ELSE IF outcome = "notFound" THEN "notFound" ELSE "tool"
    /\ pc' = afterToolCall(outcome)
    /\ UNCHANGED <<inputVars, envVars, streamVars, toolCalls, status,
                   timerActive, abortHandledByTimer, outputVars, countVars, iteration,
                   everyCallHadTools, updateAfterTimerAbort, registryVars>>

\* --------------------------------------- what happens while the run awaits
\* startReasoningTimer, lines 243-268: the interval callback
NarratorTick ==
    /\ timerActive
    /\ pc \in awaitPoints \cup {"returned"}
    /\ IF aborted /\ status = "reasoning"
       THEN /\ timerActive' = stopReasoningTimer(timerActive)
            /\ status' = "complete"
            /\ abortHandledByTimer' = TRUE
            /\ lastUpdate' =
                   Text(buildReasoningBlockMarkup("complete", steps, allReasoningSteps),
                        "The response was interrupted.")
       ELSE IF status = "reasoning"
       THEN /\ lastUpdate' =
                   Text(buildReasoningBlockMarkup("reasoning", steps, allReasoningSteps), "")
            /\ UNCHANGED <<timerActive, status, abortHandledByTimer>>
       ELSE UNCHANGED <<timerActive, status, abortHandledByTimer, lastUpdate>>
    /\ UNCHANGED <<pc, inputVars, envVars, streamVars, forVars, steps, allReasoningSteps,
                   responses, errorNotices, result, thrown, responseSources, countVars,
                   iteration, messages, everyCallHadTools, updateAfterTimerAbort,
                   lastFailure, registryVars>>

\* the user cancels: abortController.abort()
Abort ==
    /\ ~aborted
    /\ pc \in awaitPoints \cup {"idle"}
    /\ aborted' = TRUE
    /\ abortAtStart' = \/ modelCalls = 0
                       \/ modelCalls = 1 /\ pc = "streaming" /\ chunkCalls = <<>>
                          /\ ~chunkText
    /\ UNCHANGED <<pc, inputVars, now, streamVars, forVars, narratorVars, outputVars,
                   countVars, iteration, messages, everyCallHadTools,
                   updateAfterTimerAbort, lastFailure, registryVars>>

\* time passes; past the loop's deadline no comparison of the code changes
AdvanceTime ==
    /\ (now - loopStartTime) < LoopTimeout
    /\ pc \in awaitPoints
    /\ now' = now + 1
    /\ UNCHANGED <<pc, inputVars, aborted, abortAtStart, streamVars, forVars,
                   narratorVars, outputVars, countVars, iteration, messages,
                   everyCallHadTools, updateAfterTimerAbort, lastFailure, registryVars>>

\* ------------------------------------------------- the run specification
LoopStep ==
    \/ LoopHead
    \/ StreamChunkTool
    \/ StreamChunkText
    \/ StreamEnd
    \/ \E errorName \in StreamErrors : StreamError(errorName)
    \/ ToolLoopHead
    \/ \E succeeded \in BOOLEAN : ExpandDone(succeeded)
    \/ \E outcome \in {"ok", "notFound", "invalidArgs", "handlerError", "timeout"} :
           ToolDone(outcome)

Next ==
    \/ \E um \in UserMessages, configuredMax \in 0..MaxIterations,
          enabledToolIds \in SUBSET {"readNote"} :
           Run(um, configuredMax, enabledToolIds, TRUE)
    \/ LoopStep
    \/ NarratorTick
    \/ Abort
    \/ AdvanceTime

Spec == Init /\ [][Next]_vars

\* each model call and each tool call returns, and the loop takes its steps
FairSpec == Spec /\ WF_vars(LoopStep)

\* ------------------------------------------- the registry specifications
RegistryNext ==
    \/ \E d \in CatalogDefs : Register(d)
    \/ \E definitions \in Batches : RegisterAll(definitions)
    \/ \E id \in ToolIds : Unregister(id)
    \/ Clear
    \/ ClearBuiltins
    \/ ClearMCPTools
    \/ \E id \in ToolIds, ctx \in PermissionContexts : CheckPermission(id, ctx)
    \/ \E ids \in SUBSET ToolIds, vault \in BOOLEAN : GetEnabledTools(ids, vault)
    \/ \E id \in ToolIds, args \in ArgObjects, outcome \in HandlerOutcomes :
           ExecuteTool(id, args, outcome)

RegistryInit ==
    /\ InitRun
    /\ collectedSources = <<>>
    /\ tools = <<>>
    /\ lastOp = NoOp
    /\ mcp = MCPIdle

RegistrySpec == RegistryInit /\ [][RegistryNext]_vars

\* checkPermission on a registry holding one definition, for every definition
\* and every context
PermissionInit ==
    /\ InitRun
    /\ collectedSources = <<>>
    /\ tools \in {<<d>> : d \in PermissionDefs}
    /\ lastOp = NoOp
    /\ mcp = MCPIdle

PermissionNext ==
    \E id \in ToolIds, ctx \in PermissionContexts : CheckPermission(id, ctx)

PermissionSpec == PermissionInit /\ [][PermissionNext]_vars

\* ----------------------------------------------- executeTool and its timer
\* ToolRegistry.executeTool, line 309: the fallback when neither the options
\* nor the metadata give a timeout
DefaultTimeoutMs == 30000

\* timeouts given in options.timeoutMs and metadata.timeoutMs; 0 stands for
\* a value that is not given (undefined and 0 are both falsy)
TimeoutValues == {0, 100, 200}

\* how long a handler runs, in ms
HandlerDurations == {50, 100, 150, 250, 30000, 40000}

\* the handlers executeTool is exercised with: a handler completes after its
\* duration with a value or an error, or never completes; it honours the
\* cancellation signal or ignores it
Handlers ==
    [completes : BOOLEAN, duration : HandlerDurations,
     settles : {"ok", "error"}, honoursSignal : BOOLEAN]

\* (variant: the timeout of the metadata wins over that of the options)
effectiveTimeout_MetadataFirst(optionsTimeoutMs, metadataTimeoutMs) ==
    IF metadataTimeoutMs # 0 THEN metadataTimeoutMs
    ELSE IF optionsTimeoutMs # 0 THEN optionsTimeoutMs
    ELSE DefaultTimeoutMs

\* options.timeoutMs || metadata.timeoutMs || 30000
effectiveTimeout(optionsTimeoutMs, metadataTimeoutMs) ==
    IF optionsTimeoutMs # 0 THEN optionsTimeoutMs
    ELSE IF metadataTimeoutMs # 0 THEN metadataTimeoutMs
    ELSE DefaultTimeoutMs

\* the handler settles before the timer of line 313 fires
completesInTime(handler, timeout) ==
    handler.completes /\ handler.duration < timeout

\* tool.call(args, {signal}): what the awaited call settles with.  The call
\* rejects with the signal's reason once the signal is aborted, whether or
\* not the handler looks at the signal (ToolRegistry.test.ts, lines 307-361)
callOutcome(handler, timeout) ==
    IF completesInTime(handler, timeout)
    THEN handler.settles
    ELSE "timeout"

\* when the awaited call settles, in ms after executeTool was entered
callSettledAt(handler, timeout) ==
    IF completesInTime(handler, timeout) THEN handler.duration ELSE timeout

\* executeTool with its timer: the result, when it is returned, and whether
\* the handler's signal was aborted
executeToolTimed(reg, toolId, args, optionsTimeoutMs, handler) ==
    IF ~isRegistered(reg, toolId)
    THEN [res |-> executeTool(reg, toolId, args, "ok"), timeout |-> 0,
          returnedAt |-> 0, signalled |-> FALSE]
    ELSE LET timeout == effectiveTimeout(optionsTimeoutMs,
                                         reg[IndexOf(reg, toolId)].timeoutMs)
             res == executeTool(reg, toolId, args, callOutcome(handler, timeout))
         IN [res |-> res,
             timeout |-> timeout,
             returnedAt |-> IF res.invocations = 0 THEN 0
                            ELSE callSettledAt(handler, timeout),
             signalled |-> res.invocations # 0 /\ ~completesInTime(handler, timeout)]

\* registered definitions with a timeout in their metadata
TimedDefs ==
    {[id |-> "readNote", category |-> "search", isAlwaysEnabled |-> FALSE,
      requiresVault |-> FALSE, permission |-> "unset",
      allowsAnnotatedOnly |-> FALSE, isPlusOnly |-> FALSE, timeoutMs |-> t] :
        t \in TimeoutValues}

\* one call of executeTool on a fresh registry
ExecuteToolTimed(id, args, optionsTimeoutMs, handler) ==
    /\ lastOp = NoOp
    /\ lastOp' = [op |-> "executeToolTimed", id |-> id, args |-> args,
                  optionsTimeoutMs |-> optionsTimeoutMs, handler |-> handler,
                  out |-> executeToolTimed(tools, id, args, optionsTimeoutMs, handler)]
    /\ UNCHANGED <<tools, runVars, mcp>>

TimeoutInit ==
    /\ InitRun
    /\ collectedSources = <<>>
    /\ tools \in {<<d>> : d \in TimedDefs}
    /\ lastOp = NoOp
    /\ mcp = MCPIdle

TimeoutNext ==
    \E id \in {"readNote", "ghost"}, args \in ArgObjects,
       optionsTimeoutMs \in TimeoutValues, handler \in Handlers :
        ExecuteToolTimed(id, args, optionsTimeoutMs, handler)

TimeoutSpec == TimeoutInit /\ [][TimeoutNext]_vars

\* ------------------------------------------------- the narrator by itself
\* largest number of addReasoningStep calls of one run explored
MaxSteps == 6

\* the steps the narrator is given: a summary, a tool name, and whether the
\* step is for the full history only
StepInputs ==
    {[summary |-> "call", toolName |-> "localSearch", detailedOnly |-> FALSE],
     [summary |-> "finding", toolName |-> "", detailedOnly |-> FALSE],
     [summary |-> "detail", toolName |-> "", detailedOnly |-> TRUE]}

\* startReasoningTimer, lines 216-240: a fresh state and the initial step
NarratorStart ==
    /\ status = "idle"
    /\ status' = "reasoning"
    /\ steps' = addReasoningStep(<<>>, Step("initial", ""), FALSE)
    /\ allReasoningSteps' = addToHistory(<<>>, Step("initial", ""))
    /\ abortHandledByTimer' = FALSE
    /\ timerActive' = TRUE
    /\ UNCHANGED <<pc, inputVars, envVars, streamVars, forVars, outputVars, countVars,
                   iteration, messages, everyCallHadTools, updateAfterTimerAbort,
                   lastFailure, registryVars>>

\* addReasoningStep(summary, toolName, detailedOnly)
NarratorAdd(in) ==
    /\ status = "reasoning"
    /\ Len(allReasoningSteps) < MaxSteps
    /\ steps' = addReasoningStep(steps, Step(in.summary, in.toolName), in.detailedOnly)
    /\ allReasoningSteps' = addToHistory(allReasoningSteps, Step(in.summary, in.toolName))
    /\ UNCHANGED <<pc, inputVars, envVars, streamVars, forVars, status, timerActive,
                   abortHandledByTimer, outputVars, countVars, iteration, messages,
                   everyCallHadTools, updateAfterTimerAbort, lastFailure, registryVars>>

\* stopReasoningTimer, then (lines 819 and 965) the status set to complete or
\* (catch block of run) left collapsed
NarratorStop(final) ==
    /\ status = "reasoning"
    /\ timerActive' = stopReasoningTimer(timerActive)
    /\ status' = final
    /\ UNCHANGED <<pc, inputVars, envVars, streamVars, forVars, steps, allReasoningSteps,
                   abortHandledByTimer, outputVars, countVars, iteration, messages,
                   everyCallHadTools, updateAfterTimerAbort, lastFailure, registryVars>>

\* buildReasoningBlockMarkup() pushed to the user
NarratorRender ==
    /\ status # "idle"
    /\ lastUpdate' = Text(buildReasoningBlockMarkup(status, steps, allReasoningSteps), "")
    /\ UNCHANGED <<pc, inputVars, envVars, streamVars, forVars, narratorVars, responses,
                   errorNotices, result, thrown, responseSources, countVars, iteration,
                   messages, everyCallHadTools, updateAfterTimerAbort, lastFailure,
                   registryVars>>

NarratorNext ==
    \/ NarratorStart
    \/ \E in \in StepInputs : NarratorAdd(in)
    \/ \E final \in {"complete", "collapsed"} : NarratorStop(final)
    \/ NarratorRender

NarratorSpec == Init /\ [][NarratorNext]_vars

\* --------------------------------------------- the sources by themselves
\* the sources a run has collected before the call that is looked at
PriorSources == {<<>>, <<sourceOf(SampleDocuments[1])>>}

\* runReActLoop, lines 926-934: a tool call has returned; which tool it was
\* and what it returned are drawn from the tool results
CollectSources ==
    /\ lastOp = NoOp
    /\ pc = "idle"
    /\ \E tcName \in {"localSearch", "readNote"}, toolResult \in ToolResults :
         /\ collectedSources' = collectSources(collectedSources, tcName, toolResult)
         /\ lastOp' = [op |-> "collect", tcName |-> tcName, toolResult |-> toolResult]
    /\ UNCHANGED <<pc, inputVars, envVars, streamVars, toolCalls, tcIndex, curExpansion,
                   narratorVars, outputVars, countVars, iteration, messages,
                   everyCallHadTools, updateAfterTimerAbort, lastFailure, tools, mcp>>

\* run(), lines 456-485: the loop has returned with the sources collected
HandOver ==
    /\ pc = "idle"
    /\ FinishRun(Text(NoBlock, "answer"))
    /\ UNCHANGED <<inputVars, envVars, streamVars, forVars, narratorVars, lastUpdate,
                   countVars, iteration, messages, everyCallHadTools,
                   updateAfterTimerAbort, lastFailure, registryVars>>

SourcesInit ==
    /\ InitRun
    /\ collectedSources \in PriorSources
    /\ tools = BuiltinTools
    /\ lastOp = NoOp
    /\ mcp = MCPIdle

SourcesNext ==
    \/ CollectSources
    \/ HandOver

SourcesSpec == SourcesInit /\ [][SourcesNext]_vars

\* ------------------------------------------------ the MCP specification
MCPStep ==
    \/ MCPDisconnected
    \/ \E s \in Servers, ok \in BOOLEAN : MCPConnectDone(s, ok)
    \/ \E s \in Servers, ok \in BOOLEAN, failing \in SUBSET {"t", "u"} :
           MCPListDone(s, ok, failing)
    \/ MCPInitializeEnd

MCPNext ==
    \/ \E config \in MCPConfigs : MCPInitialize(config)
    \/ MCPStep
    \/ ClearBuiltins

MCPSpec == Init /\ [][MCPNext]_vars

\* --------------------------------- a run while the registry is changed
\* a chunk with a call of the tool of an MCP server arrives
StreamChunkMCPTool ==
    /\ pc = "streaming"
    /\ ~aborted
    /\ toolExecs + Len(chunkCalls) < MaxToolCalls
    /\ chunkCalls' = Append(chunkCalls, [id |-> 50 + Len(chunkCalls),
                                         name |-> MCPToolId("s1", "t")])
    /\ UNCHANGED <<pc, inputVars, envVars, chunkText, forVars, narratorVars, outputVars,
                   countVars, iteration, messages, everyCallHadTools,
                   updateAfterTimerAbort, lastFailure, registryVars>>

\* the registry is changed by other code while the run awaits
RegistryMutation ==
    /\ pc \in awaitPoints
    /\ \/ Register([id |-> "readNote", category |-> "search", isAlwaysEnabled |-> TRUE,
                    requiresVault |-> FALSE, permission |-> "unset",
                    allowsAnnotatedOnly |-> FALSE, isPlusOnly |-> FALSE])
       \/ Unregister("readNote")
       \/ ClearBuiltins
       \/ ClearMCPTools

\* the MCP servers are connected to again while the run awaits
MCPReinitialize ==
    /\ pc \in awaitPoints
    /\ MCPInitialize([blank |-> FALSE, valid |-> TRUE, servers |-> {"s1"}])

\* the registry of a session in which initialize() has connected server s1
IsolationInit ==
    /\ InitRun
    /\ collectedSources = <<>>
    /\ tools = Append(BuiltinTools, MCPToolDef("s1", "t"))
    /\ lastOp = NoOp
    /\ mcp = [phase |-> "idle",
              config |-> [blank |-> FALSE, valid |-> TRUE, servers |-> {"s1"}],
              clients |-> {"s1"},
              registeredToolIds |-> {MCPToolId("s1", "t")},
              serverStatuses |-> [s \in {"s1"} |-> [status |-> "connected", tools |-> <<"t">>]],
              task |-> [s \in {"s1"} |-> "done"],
              isInitialized |-> TRUE,
              calls |-> 1,
              ret |-> [servers |-> [s \in {"s1"} |->
                                       [status |-> "connected", tools |-> <<"t">>]],
                       configError |-> FALSE]]

IsolationNext ==
    \/ \E enabledToolIds \in SUBSET {"readNote"} :
           Run([l5 |-> <<>>, message |-> <<"h", "i">>, valid |-> TRUE, hasEnvelope |-> TRUE],
               MaxIterations, enabledToolIds, TRUE)
    \/ LoopHead
    \/ StreamChunkTool
    \/ StreamChunkMCPTool
    \/ StreamEnd
    \/ ToolLoopHead
    \/ ExpandDone(TRUE)
    \/ \E outcome \in {"ok", "notFound"} : ToolDone(outcome)
    \/ RegistryMutation
    \/ MCPReinitialize
    \/ MCPStep

IsolationSpec == IsolationInit /\ [][IsolationNext]_vars

\* ------------------------------- the signal executeTool hands to the handler
\* largest timeout, in ticks of the call's clock, explored
MaxTimeout == 2

\* options.signal of a call: not given, given and not aborted, given and aborted
ExternalSignals == {"none", "unset", "set"}

\* runReActLoop, line 926: the call of a tool is given the tool call, the
\* run's tools and the prompt; the run's abortController is not among them
runCallSignal(runAborted) == "none"

\* executeTool, lines 311-322: the timer is set and, when a signal is given,
\* a listener for its abort event is added.  An abort event is dispatched
\* when abort() is called: a listener added to a signal that is aborted
\* already is never called
executeToolCalled(caller, external, timeout) ==
    [op |-> "executeToolSignal", caller |-> caller, phase |-> "called",
     external |-> external, listening |-> external # "none",
     timeout |-> timeout, at |-> 0, handlerSignal |-> FALSE, reason |-> "none",
     outcome |-> "none"]

\* a caller of executeTool that passes options.signal
ExecuteToolCalled ==
    /\ lastOp = NoOp
    /\ \E external \in ExternalSignals, timeout \in 1..MaxTimeout :
           lastOp' = executeToolCalled("direct", external, timeout)
    /\ UNCHANGED <<tools, runVars, mcp>>

\* the run calls a tool (line 926)
RunToolCall ==
    /\ lastOp = NoOp
    /\ \E timeout \in 1..MaxTimeout :
           lastOp' = executeToolCalled("run", runCallSignal(aborted), timeout)
    /\ UNCHANGED <<tools, runVars, mcp>>

\* the owner of options.signal aborts it: the listener of lines 318-322, if
\* it is still there, aborts the handler's signal with the external reason
ExternalAbort ==
    /\ lastOp # NoOp /\ lastOp.op = "executeToolSignal"
    /\ lastOp.external = "unset"
    /\ lastOp' = [lastOp EXCEPT
                    !.external = "set",
                    !.listening = FALSE,
                    !.handlerSignal = @ \/ lastOp.listening,
                    !.reason = IF lastOp.listening /\ ~lastOp.handlerSignal
                               THEN "external" ELSE @]
    /\ UNCHANGED <<tools, runVars, mcp>>

\* time passes while tool.call is awaited; at the deadline the timer of
\* lines 313-315 aborts the handler's signal
ToolTick ==
    /\ lastOp # NoOp /\ lastOp.op = "executeToolSignal"
    /\ lastOp.phase = "called"
    /\ lastOp.at < lastOp.timeout
    /\ lastOp' = [lastOp EXCEPT
                    !.at = @ + 1,
                    !.handlerSignal = @ \/ (lastOp.at + 1 = lastOp.timeout),
                    !.reason = IF lastOp.at + 1 = lastOp.timeout /\ ~lastOp.handlerSignal
                               THEN "timeout" ELSE @]
    /\ UNCHANGED <<tools, runVars, mcp>>

\* executeTool, lines 337-366: tool.call settles (before the deadline with a
\* value or an error, or by rejecting once its signal is aborted) and
\* executeTool returns
HandlerSettles(outcome) ==
    /\ lastOp # NoOp /\ lastOp.op = "executeToolSignal"
    /\ lastOp.phase = "called"
    /\ IF lastOp.handlerSignal THEN outcome = "aborted" ELSE outcome \in {"ok", "error"}
    /\ lastOp' = [lastOp EXCEPT !.phase = "returned", !.outcome = outcome]
    /\ UNCHANGED <<tools, runVars, mcp>>

SignalNext ==
    \/ ExecuteToolCalled
    \/ RunToolCall
    \/ Abort
    \/ ExternalAbort
    \/ ToolTick
    \/ \E outcome \in {"ok", "error", "aborted"} : HandlerSettles(outcome)

SignalSpec == Init /\ [][SignalNext]_vars

\* ----------------------------------- the conversation a run hands the model
\* longest chat history explored
MaxHistory == 2

\* the roles of the turns loadAndAddChatHistory finds in the memory
Histories == UNION {[1..n -> {"user", "ai"}] : n \in 0..MaxHistory}

\* a message of the prompt: its role, its content (a list of parts), and the
\* ad-hoc property of line 710 (empty when it was never set)
PromptMsg(role, content, ragInstructions) ==
    [role |-> role, content |-> content, ragInstructions |-> ragInstructions]

\* lines 681-688: the retrieved documents, formatted
DocumentsPart(nDocs) == <<"retrieved documents", nDocs>>

\* prepareVaultQaContext, lines 619-711: the documents are retrieved and
\* formatted, the citation instructions are built, and the whole is stored
\* as a property of the last message of the list so far
prepareVaultQaContext(msgs, nDocs) ==
    [msgs EXCEPT ![Len(msgs)].ragInstructions =
                     <<<<"answer from context">>, DocumentsPart(nDocs), <<"citation instructions">>>>]

\* buildUserMessageContent, lines 716-729: the user content of the envelope,
\* "" when the envelope has none; isVaultQAMode is not looked at
buildUserMessageContent(hasUserLayer, qa) ==
    IF hasUserLayer THEN <<<<"user content">>>> ELSE <<>>

\* prepareAgentConversation, lines 548-613: system prompt, chat history,
\* then (retrieval-QA mode) the retrieval, then the user turn
prepareAgentConversation(um, history, nDocs, hasUserLayer) ==
    LET qa == isVaultQAMode(um)
        upToHistory ==
            <<PromptMsg("system", <<<<"system prompt">>>>, <<>>)>> \o
            [i \in 1..Len(history) |->
                PromptMsg(IF history[i] = "user" THEN "human" ELSE "ai", <<<<"history">>>>, <<>>)]
        retrieved == IF qa THEN prepareVaultQaContext(upToHistory, nDocs) ELSE upToHistory
        userMessageContent == buildUserMessageContent(hasUserLayer, qa)
    IN IF userMessageContent # <<>>
       THEN Append(retrieved, PromptMsg("human", userMessageContent, <<>>))
       ELSE retrieved

\* streamModelResponse, line 1028: boundModel.stream(messages); what a chat
\* model is sent of a message is its role and its content
modelInput(msgs) ==
    [i \in 1..Len(msgs) |-> [role |-> msgs[i].role, content |-> msgs[i].content]]

\* run() prepares the conversation of a request that passed the checks of
\* lines 395-421
PrepareAgentConversation ==
    /\ lastOp = NoOp
    /\ \E um \in {u \in UserMessages : u.valid /\ u.hasEnvelope}, history \in Histories,
          nDocs \in 0..MaxDocs, hasUserLayer \in BOOLEAN :
           lastOp' = [op |-> "prepareAgentConversation", um |-> um,
                      isVaultQAMode |-> isVaultQAMode(um), history |-> history,
                      messages |-> prepareAgentConversation(um, history, nDocs, hasUserLayer)]
    /\ UNCHANGED <<tools, runVars, mcp>>

PrepareSpec == Init /\ [][PrepareAgentConversation]_vars

\* ------------------------- MCPManager: calls that overlap on the singleton
\* The manager has no lock: a second initialize() or a disconnect() may be
\* entered while an earlier call is awaiting.  Call 0 is a disconnect(),
\* calls 1..MaxInits are initialize() calls for a configuration with server
\* s1; the client an initialize() call connects carries the call's number.
OverlapCalls == 0..MaxInits

NoClients == [s \in {} |-> 0]

OverlapIdle ==
    [clients |-> NoClients,            \* this.clients: server name -> client
     registeredToolIds |-> {},
     isInitialized |-> FALSE,
     connected |-> {},                 \* clients whose connect() has resolved
     closed |-> {},                    \* clients whose close() was called
     binding |-> NoClients,            \* the client each registered handler calls
     call |-> [c \in OverlapCalls |-> [pc |-> "idle", closing |-> {}]]]

TrackedClients(m) == {m.clients[s] : s \in DOMAIN m.clients}

\* disconnect(), lines 346-358: the synchronous part, up to the await
disconnectEntered(m, c) ==
    [m EXCEPT !.registeredToolIds = {},
              !.closed = @ \cup TrackedClients(m),
              !.call[c] = [pc |-> "disconnecting", closing |-> TrackedClients(m)]]

\* initialize(), line 144: enters disconnect()
OverlapInitialize(k) ==
    /\ k \in 1..MaxInits
    /\ mcp.call[k].pc = "idle"
    /\ tools' = clearMCPTools(tools)
    /\ mcp' = disconnectEntered(mcp, k)
    /\ UNCHANGED <<runVars, lastOp>>

\* disconnect() called by itself
OverlapDisconnect ==
    /\ mcp.call[0].pc = "idle"
    /\ tools' = clearMCPTools(tools)
    /\ mcp' = disconnectEntered(mcp, 0)
    /\ UNCHANGED <<runVars, lastOp>>

\* disconnect(), lines 360-362: the closes have settled, the map is emptied;
\* an initialize() goes on to connect (lines 145-184)
OverlapClosed(c) ==
    /\ mcp.call[c].pc = "disconnecting"
    /\ mcp' = [mcp EXCEPT !.clients = NoClients,
                          !.isInitialized = FALSE,
                          !.call[c].pc = IF c = 0 THEN "done" ELSE "connecting"]
    /\ UNCHANGED <<runVars, tools, lastOp>>

\* initialize(), lines 184-185 and 256-260: connectToServer has settled
OverlapConnectDone(k, ok) ==
    /\ k \in 1..MaxInits
    /\ mcp.call[k].pc = "connecting"
    /\ IF ok
       THEN mcp' = [mcp EXCEPT !.clients = [s \in {"s1"} |-> k],
                               !.connected = @ \cup {k},
                               !.call[k].pc = "listing"]
       ELSE mcp' = [mcp EXCEPT !.call[k].pc = "ending"]
    /\ UNCHANGED <<runVars, tools, lastOp>>

\* initialize(), lines 188-260: listTools has settled; it succeeds only on a
\* client that was not told to close
OverlapListDone(k, ok) ==
    /\ k \in 1..MaxInits
    /\ mcp.call[k].pc = "listing"
    /\ ok => k \notin mcp.closed
    /\ IF ok
       THEN /\ tools' = register(tools, MCPToolDef("s1", "t"))
            /\ mcp' = [mcp EXCEPT
                          !.registeredToolIds = @ \cup {MCPToolId("s1", "t")},
                          !.binding = [id \in {MCPToolId("s1", "t")} |-> k],
                          !.call[k].pc = "ending"]
       ELSE /\ mcp' = [mcp EXCEPT !.call[k].pc = "ending"]
            /\ UNCHANGED tools
    /\ UNCHANGED <<runVars, lastOp>>

\* initialize(), lines 264-267
OverlapInitializeEnd(k) ==
    /\ k \in 1..MaxInits
    /\ mcp.call[k].pc = "ending"
    /\ mcp' = [mcp EXCEPT !.isInitialized = TRUE, !.call[k].pc = "done"]
    /\ UNCHANGED <<runVars, tools, lastOp>>

OverlapInit ==
    /\ InitRun
    /\ collectedSources = <<>>
    /\ tools = BuiltinTools
    /\ lastOp = NoOp
    /\ mcp = OverlapIdle

OverlapNext ==
    \/ \E k \in 1..MaxInits : OverlapInitialize(k)
    \/ OverlapDisconnect
    \/ \E c \in OverlapCalls : OverlapClosed(c)
    \/ \E k \in 1..MaxInits, ok \in BOOLEAN : OverlapConnectDone(k, ok)
    \/ \E k \in 1..MaxInits, ok \in BOOLEAN : OverlapListDone(k, ok)
    \/ \E k \in 1..MaxInits : OverlapInitializeEnd(k)

OverlapSpec == OverlapInit /\ [][OverlapNext]_vars

\* ================================================================ claims
\* the request passed the boundary checks of run() and the loop was entered
LoopEntered == userMessage.valid /\ userMessage.hasEnvelope /\ pc # "idle"

\* C1: with a model whose every response carries tool calls, in a tool-agent
\* run that is not cancelled and whose calls all return, the loop terminates,
\* makes at most maxIterations model calls, starts no model call at an
\* iteration boundary where the elapsed time has reached the time budget, and
\* returns one of the two partial-results messages, not a final answer.
C1_LoopTerminates ==
    /\ [](modelCalls <= maxIterations)
    /\ [][modelCalls' # modelCalls => (now - loopStartTime) < LoopTimeout]_vars
    /\ [](pc = "returned" /\ LoopEntered /\ everyCallHadTools /\ ~isVaultQA /\ ~aborted
            => /\ result.text \in {"time limit", "maximum number of tool calls"}
               /\ responses = <<result>>
               /\ Len(messages) > 0 /\ messages[Len(messages)].role # "assistant")
    /\ (pc # "idle") ~> (pc = "returned")

C1_Witness ==
    /\ pc = "returned" /\ LoopEntered /\ everyCallHadTools /\ ~isVaultQA /\ ~aborted
    /\ modelCalls = 2 /\ maxIterations = 2
    /\ result.text = "maximum number of tool calls"

\* C2 (as stated): when the signal is set before the first model response has
\* arrived, run() returns an empty response and throws nothing.
C2_EmptyOnEarlyCancel ==
    abortAtStart /\ pc = "returned" /\ LoopEntered
        => IsEmptyText(result) /\ ~thrown

\* C2 (amended): when the signal is set before the first model response has
\* arrived, run() throws nothing and shows no error notice; it returns an
\* empty response when the narrator's tick handled the abort, and otherwise
\* the reasoning block followed by the interrupted message (signal seen at the
\* iteration boundary, no model call made) or by the empty partial answer
\* (signal seen in the first stream).
C2_EarlyCancel ==
    abortAtStart /\ pc = "returned" /\ LoopEntered
        => /\ ~thrown
           /\ errorNotices = <<>>
           /\ abortHandledByTimer => IsEmptyText(result) /\ responses = <<>>
           /\ ~abortHandledByTimer =>
                 /\ responses = <<result>>
                 /\ result.block.status = "complete"
                 /\ result.text = IF modelCalls = 0
                                  THEN "The response was interrupted." ELSE ""

C2_Witness ==
    /\ abortAtStart /\ pc = "returned" /\ LoopEntered
    /\ modelCalls = 1 /\ abortHandledByTimer /\ IsEmptyText(result)

\* C3: once a tick of the narrator has handled the abort, neither the loop
\* nor run() pushes another message through onUpdate or calls the response
\* handler, and run() returns an empty response.
C3_NarratorHandledAbort ==
    /\ ~updateAfterTimerAbort
    /\ abortHandledByTimer /\ pc = "returned"
          => IsEmptyText(result) /\ responses = <<>>

\* C4: once the cancellation signal is set, the loop starts no further model
\* call and no further tool execution.
C4_NothingStartsAfterCancel ==
    [][aborted => modelCalls' = modelCalls /\ toolExecs' = toolExecs]_vars

\* C5: a failing tool call (or a failing query expansion) never ends the run:
\* the call's tool-result message, carrying the failure text and keyed by the
\* call's id, is appended, the for-loop goes on to the remaining calls, and
\* the loop goes on to the next model call when its budgets allow; run()
\* returns only from the iteration boundary or from the model stream.
C5_FailingToolNeverAborts ==
    /\ [][pc = "executing" /\ pc' # "executing" =>
            LET tc == toolCalls[tcIndex]
            IN /\ pc' = "toolLoop"
               /\ tcIndex' = tcIndex + 1
               /\ Len(messages') = Len(messages) + 1
               /\ SubSeq(messages', 1, Len(messages)) = messages
               /\ messages'[Len(messages')].role = "tool"
               /\ messages'[Len(messages')].name = tc.name
               /\ messages'[Len(messages')].id = (IF tc.id # 0 THEN tc.id ELSE 100 + tcIndex)
               /\ lastFailure' # "none" =>
                      messages'[Len(messages')].payload = "failure text"
               /\ ~thrown' /\ errorNotices' = errorNotices]_vars
    /\ [][pc = "expanding" /\ pc' # "expanding" =>
            pc' = "executing" /\ toolExecs' = toolExecs + 1]_vars
    /\ [][pc = "toolLoop" /\ lastFailure # "none" =>
            IF tcIndex <= Len(toolCalls) /\ ~aborted
            THEN pc' \in {"expanding", "executing"}
            ELSE pc' = "boundary"]_vars
    /\ [][pc = "boundary" /\ lastFailure # "none" /\ ~aborted
             /\ iteration < maxIterations /\ (now - loopStartTime) < LoopTimeout
            => pc' = "streaming" /\ modelCalls' = modelCalls + 1]_vars
    /\ [][pc' = "returned" /\ pc # "returned" =>
            pc \in {"idle", "boundary", "streaming"}]_vars

C5_Witness ==
    /\ pc = "streaming" /\ iteration = 2
    /\ \E i \in 1..(Len(messages) - 1) :
          /\ messages[i].role = "tool" /\ messages[i].payload = "failure text"
          /\ messages[i + 1].role = "tool"

\* C6: a run whose raw user text contains a retrieval-QA trigger phrase, in
\* any letter case, resolves and binds no tool, makes at most one model call
\* and executes no tool; when it is not cancelled, the one response, tool
\* calls or not, is returned as the final answer.
C6_RetrievalQA ==
    LET raw == IF userMessage.l5 # <<>> THEN userMessage.l5 ELSE userMessage.message
        sameLetter(c, k) == c = k \/ \E i \in 1..26 : UpperCase[i] = c /\ LowerCase[i] = k
        hasTrigger ==
            \E keyword \in vaultQaKeywords, offset \in 0..Len(raw) :
                /\ offset + Len(keyword) <= Len(raw)
                /\ \A j \in 1..Len(keyword) : sameLetter(raw[offset + j], keyword[j])
    IN LoopEntered /\ hasTrigger
         => /\ availableTools = <<>>
            /\ boundTools = <<>>
            /\ modelCalls <= 1
            /\ toolExecs = 0
            /\ pc = "returned" /\ ~aborted /\ everyCallHadTools =>
                  /\ modelCalls = 1
                  /\ result.text = Content
                  /\ result.block.status = "complete"
                  /\ responses = <<result>>
                  /\ lastUpdate = result
                  /\ messages[Len(messages)].role = "assistant"
                  /\ messages[Len(messages)].calls = <<>>

C6_Witness ==
    /\ pc = "returned" /\ LoopEntered /\ isVaultQA /\ ~aborted
    /\ userMessage.l5 = <<"S","E","A","R","C","H"," ","M","Y"," ","N","O","T","E","S">>
    /\ chunkCalls # <<>> /\ modelCalls = 1 /\ toolExecs = 0
    /\ responses = <<result>>

\* C7: for an identifier that is not registered, checkPermission denies with
\* a "not found" reason and executeTool fails with a "not found" error, and
\* no handler is invoked.
C7_UnknownToolNotFound ==
    LET unknown(id) == \A i \in 1..Len(tools) : tools[i].id # id
    IN /\ lastOp.op = "checkPermission" /\ unknown(lastOp.id)
            => ~lastOp.res.allowed /\ lastOp.res.reason = "not found"
       /\ lastOp.op = "executeTool" /\ unknown(lastOp.id)
            => /\ ~lastOp.res.success
               /\ lastOp.res.error = "not found"
               /\ lastOp.res.invocations = 0

C7_Witness ==
    /\ lastOp.op = "executeTool"
    /\ Len(tools) = 2
    /\ lastOp.id = "ghost"
    /\ lastOp.res.error = "not found"

\* C8: for a registered tool, checkPermission allows exactly when the vault
\* test, the permission test and the annotation test all pass; on denial the
\* reason is that of the first failing test in that order; the result depends
\* neither on hasPlusLicense nor on isPlusOnly.
C8_PermissionFailsClosed ==
    lastOp.op = "checkPermission" /\ (\E i \in 1..Len(tools) : tools[i].id = lastOp.id)
      => LET d == tools[CHOOSE i \in 1..Len(tools) : tools[i].id = lastOp.id]
             ctx == lastOp.ctx
             res == lastOp.res
             vaultOk == ~d.requiresVault \/ ctx.vaultAvailable
             permOk == d.permission \in {"unset", "read"} \/ ctx.hasWritePermission
             annotOk == ~d.allowsAnnotatedOnly \/ ctx.isAnnotatedFile
             otherLicense == [ctx EXCEPT !.hasPlusLicense = ~ctx.hasPlusLicense]
             otherPlus == <<[d EXCEPT !.isPlusOnly = ~d.isPlusOnly]>>
         IN /\ res.allowed <=> (vaultOk /\ permOk /\ annotOk)
            /\ ~vaultOk => res.reason = "Tool requires vault access"
            /\ vaultOk /\ ~permOk =>
                  res.reason = (IF d.permission = "write"
                                THEN "Tool requires write permission"
                                ELSE "Tool requires admin permission")
            /\ vaultOk /\ permOk /\ ~annotOk =>
                  res.reason = "Tool can only operate on annotated/selected files"
            /\ checkPermission(tools, lastOp.id, otherLicense) = res
            /\ checkPermission(otherPlus, lastOp.id, ctx) = res

C8_Witness ==
    /\ lastOp.op = "checkPermission"
    /\ Len(tools) = 1 /\ tools[1].id = lastOp.id
    /\ tools[1].requiresVault /\ tools[1].permission = "write"
    /\ tools[1].allowsAnnotatedOnly
    /\ ~lastOp.ctx.vaultAvailable /\ ~lastOp.ctx.hasWritePermission
    /\ lastOp.res.reason = "Tool requires vault access"

\* C9: getEnabledTools returns exactly the registered tools that are
\* (always enabled or named in ids) and (not vault-requiring or the vault is
\* available), each once, in registry insertion order.
C9_EnabledTools ==
    lastOp.op = "getEnabledTools"
      => LET res == lastOp.res
             wanted(d) == /\ d.isAlwaysEnabled \/ d.id \in lastOp.ids
                          /\ ~d.requiresVault \/ lastOp.vault
             pos(id) == CHOOSE i \in 1..Len(tools) : tools[i].id = id
         IN /\ {res[i] : i \in 1..Len(res)} =
                  {tools[i].id : i \in {j \in 1..Len(tools) : wanted(tools[j])}}
            /\ \A i, j \in 1..Len(res) : i < j => pos(res[i]) < pos(res[j])
            /\ \A i \in 1..Len(tools) :
                  tools[i].requiresVault /\ ~lastOp.vault
                      => \A j \in 1..Len(res) : res[j] # tools[i].id

C9_Witness ==
    /\ lastOp.op = "getEnabledTools"
    /\ Len(tools) = 2 /\ ~lastOp.vault
    /\ tools[1].requiresVault /\ tools[1].isAlwaysEnabled
    /\ tools[2].id \in lastOp.ids /\ ~tools[2].isAlwaysEnabled /\ ~tools[2].requiresVault
    /\ lastOp.res = <<tools[2].id>>

\* C10: for a registered tool, arguments that violate the schema (a required
\* key missing, or a value of the wrong type) make executeTool fail with an
\* error starting "Invalid arguments:" without invoking the handler; with
\* arguments that satisfy the schema the handler is invoked exactly once.
C10_ValidationGatesExecution ==
    lastOp.op = "executeTool" /\ (\E i \in 1..Len(tools) : tools[i].id = lastOp.id)
      => LET schema == SchemaOf(lastOp.id)
             args == lastOp.args
             violates ==
                 \E k \in DOMAIN schema :
                     \/ schema[k].required /\ k \notin DOMAIN args
                     \/ k \in DOMAIN args /\ args[k] # schema[k].type
         IN IF violates
            THEN /\ ~lastOp.res.success
                 /\ lastOp.res.error = "Invalid arguments:"
                 /\ lastOp.res.invocations = 0
            ELSE lastOp.res.invocations = 1

C10_Witness ==
    /\ lastOp.op = "executeTool" /\ lastOp.id = "localSearch"
    /\ \E i \in 1..Len(tools) : tools[i].id = "localSearch"
    /\ "query" \notin DOMAIN lastOp.args
    /\ lastOp.res.error = "Invalid arguments:"
    /\ lastOp.res.invocations = 0

C12_RollingWindow ==
    /\ [](LET shown == SelectSeq(allReasoningSteps, LAMBDA st : st.summary # "detail")
              n == Len(shown)
          IN /\ Len(steps) <= 4
             /\ steps = SubSeq(shown, (IF n > 4 THEN n - 4 ELSE 0) + 1, n))
    /\ [][allReasoningSteps' # allReasoningSteps /\ status = "reasoning" =>
             /\ Len(allReasoningSteps') = Len(allReasoningSteps) + 1
             /\ SubSeq(allReasoningSteps', 1, Len(allReasoningSteps))
                   = allReasoningSteps]_vars
    /\ [][lastUpdate' # lastUpdate =>
             lastUpdate'.block =
                 [status |-> status,
                  steps |-> IF status = "reasoning" THEN steps
                            ELSE allReasoningSteps]]_vars

C12_Witness ==
    /\ status = "complete"
    /\ Len(allReasoningSteps) = 6 /\ Len(steps) = 4
    /\ allReasoningSteps[3].summary = "detail"
    /\ lastUpdate.block = [status |-> "complete", steps |-> allReasoningSteps]

\* C13: a tool call adds sources to the run's collected sources only when it
\* is a successful localSearch call whose payload parses to an object of type
\* local_search with an array of documents; it then appends one entry per
\* document, in order, with the document's title, path and score (a document
\* without title is listed under its path, or as "Untitled" when it has
\* neither, and a document without path has its title as path).  A failed
\* call, another tool and any other payload leave the collected sources as
\* they were.
C13_SourceCollection ==
    [][lastOp.op = "none" /\ lastOp'.op = "collect" =>
         LET r == lastOp'.toolResult
             p == r.result
             before == Len(collectedSources)
             n == Len(collectedSources') - before
             wellFormed == /\ lastOp'.tcName = "localSearch"
                           /\ r.success
                           /\ p.parses
                           /\ p.type = "local_search"
                           /\ p.isArray
         IN /\ n >= 0
            /\ SubSeq(collectedSources', 1, before) = collectedSources
            /\ IF wellFormed
               THEN /\ n = Len(p.documents)
                    /\ \A i \in 1..n :
                         LET e == collectedSources'[before + i]
                             d == p.documents[i]
                         IN /\ e.score = d.score
                            /\ e.title = IF d.title # <<>> THEN d.title
                                         ELSE IF d.path # <<>> THEN d.path ELSE Untitled
                            /\ e.path = IF d.path # <<>> THEN d.path ELSE d.title
               ELSE n = 0]_vars

\* two documents have been added after the source of an earlier search
C13_Witness ==
    /\ lastOp.op = "collect"
    /\ lastOp.tcName = "localSearch"
    /\ lastOp.toolResult.success
    /\ lastOp.toolResult.result.type = "local_search"
    /\ Len(lastOp.toolResult.result.documents) = 2
    /\ lastOp.toolResult.result.documents[1].title # <<>>
    /\ lastOp.toolResult.result.documents[1].path # <<>>
    /\ lastOp.toolResult.result.documents[1].score > 0
    /\ Len(collectedSources) = 3

\* C14: the sources handed to handleResponse at the end of a run are the
\* deduplicated collected sources: deduplicating them again changes nothing,
\* no two of them have the same lowercase path-or-title key, every key of the
\* collected sources is kept, the entry kept for a key is a collected entry
\* with the highest score of that key, and the keys stand in the order in
\* which they were first collected.  Sources are handed over whenever a run
\* that ends with its answer has collected any.
C14_Deduplicated ==
    [][responseSources' # responseSources =>
         LET c == collectedSources
             h == responseSources'[Len(responseSources')]
             u == h.list
             firstAt(k) == CHOOSE i \in 1..Len(c) :
                               /\ sourceKey(c[i]) = k
                               /\ \A j \in 1..(i - 1) : sourceKey(c[j]) # k
         IN /\ deduplicateSources(deduplicateSources(c)) = deduplicateSources(c)
            /\ (c # <<>> /\ responses'[Len(responses')].text # "error") => h.defined
            /\ h.defined =>
                 /\ u # <<>>
                 /\ deduplicateSources(u) = u
                 /\ \A i, j \in 1..Len(u) :
                        i # j => sourceKey(u[i]) # sourceKey(u[j])
                 /\ \A i \in 1..Len(c) :
                        \E j \in 1..Len(u) : sourceKey(u[j]) = sourceKey(c[i])
                 /\ \A j \in 1..Len(u) :
                        /\ \E i \in 1..Len(c) : c[i] = u[j]
                        /\ \A i \in 1..Len(c) :
                               sourceKey(c[i]) = sourceKey(u[j]) =>
                                   c[i].score <= u[j].score
                 /\ \A i, j \in 1..Len(u) :
                        i < j => firstAt(sourceKey(u[i])) < firstAt(sourceKey(u[j]))]_vars

\* three sources with one key were collected; the one handed over is the last
\* of them, which has the highest score
C14_Witness ==
    /\ Len(collectedSources) = 3
    /\ \A i \in 1..3 : sourceKey(collectedSources[i]) = <<"a">>
    /\ collectedSources[3].score > collectedSources[1].score
    /\ collectedSources[3].score > collectedSources[2].score
    /\ responseSources = <<[defined |-> TRUE, list |-> <<collectedSources[3]>>]>>

\* C16: the registry never holds two definitions with one identifier.
\* register(def) leaves def as the definition of its identifier and
\* registerAll(defs) the last definition of the batch for each of its
\* identifiers; unregister(id) returns true exactly when id was registered and
\* leaves id unregistered; clear leaves nothing.  None of them changes the
\* definition of any other identifier, so the definition held for an
\* identifier is the one registered last and not removed since.
C16_IdentifierUnique ==
    /\ [](\A i, j \in 1..Len(tools) : i # j => tools[i].id # tools[j].id)
    /\ [][/\ lastOp'.op = "register" =>
               /\ getToolDefinition(tools', lastOp'.id) = <<lastOp'.def>>
               /\ \A id \in ToolIds \ {lastOp'.id} : getToolDefinition(tools', id) = getToolDefinition(tools, id)
          /\ lastOp'.op = "registerAll" =>
               LET defs == lastOp'.defs
                   ids == {defs[i].id : i \in 1..Len(defs)}
                   lastOf(id) == defs[CHOOSE i \in 1..Len(defs) :
                                          /\ defs[i].id = id
                                          /\ \A j \in (i + 1)..Len(defs) : defs[j].id # id]
               IN /\ \A id \in ids : getToolDefinition(tools', id) = <<lastOf(id)>>
                  /\ \A id \in ToolIds \ ids : getToolDefinition(tools', id) = getToolDefinition(tools, id)
          /\ lastOp'.op = "unregister" =>
               /\ lastOp'.res = isRegistered(tools, lastOp'.id)
               /\ ~isRegistered(tools', lastOp'.id)
               /\ \A id \in ToolIds \ {lastOp'.id} : getToolDefinition(tools', id) = getToolDefinition(tools, id)
          /\ lastOp'.op = "clear" => tools' = <<>>]_vars

\* registerAll was given two definitions of one identifier while another
\* identifier was registered, and the registry holds one definition of each
C16_Witness ==
    /\ lastOp.op = "registerAll"
    /\ Len(lastOp.defs) = 2
    /\ lastOp.defs[1].id = lastOp.defs[2].id
    /\ lastOp.defs[1] # lastOp.defs[2]
    /\ Len(tools) = 2
    /\ getToolDefinition(tools, lastOp.defs[1].id) = <<lastOp.defs[2]>>

\* C17: a run that was given a malformed request (one that fails the input
\* schema, or one without context envelope) has returned without throwing,
\* has started neither the reasoning timer nor a model or tool call, has shown
\* the user the generic notice only and has returned an empty response.
C17_MalformedHandledAtBoundary ==
    (pc = "returned" /\ (~userMessage.valid \/ ~userMessage.hasEnvelope)) =>
        /\ ~thrown
        /\ status = "idle" /\ ~timerActive
        /\ modelCalls = 0 /\ toolExecs = 0
        /\ errorNotices = <<"Invalid input">>
        /\ responses = <<>>
        /\ IsEmptyText(result)

\* C18: a run that ended with an exception (one run() threw itself, or one
\* that reached its catch block) while the cancellation signal was set has
\* shown no error notice, has not called the response handler with an error
\* text, and has returned an empty response.
C18_CancellationNeverAnError ==
    (pc = "returned" /\ aborted /\ (thrown \/ status = "collapsed")) =>
        /\ ~thrown
        /\ errorNotices = <<>>
        /\ \A i \in 1..Len(responses) : responses[i].text # "error"
        /\ IsEmptyText(result)

C15_SnapshotIsolation ==
    /\ [][pc # "idle" =>
            availableTools' = availableTools /\ boundTools' = boundTools]_vars
    /\ [](pc # "idle" => boundTools = availableTools)
    /\ [][pc = "executing" /\ pc' # "executing" =>
            LET tc == toolCalls[tcIndex]
                inSnapshot == \E i \in 1..Len(availableTools) : availableTools[i] = tc.name
            IN (lastFailure' = "notFound") = ~inSnapshot]_vars

\* readNote and the tool of the MCP server were in the run's list; during the
\* run the registry lost both (the servers were connected to again and the
\* connection failed), and calls of both were executed after that
C15_Witness ==
    /\ pc = "toolLoop"
    /\ availableTools = <<"localSearch", "readNote", "mcp_s1_t">>
    /\ tools = <<BuiltinTools[1]>>
    /\ mcp.calls = 2 /\ mcp.phase = "idle"
    /\ lastFailure = "none"
    /\ messages[Len(messages)].role = "tool"
    /\ messages[Len(messages)].name = "mcp_s1_t"
    /\ messages[Len(messages)].payload = "result"

\* C21: the first test of the while loop of a run that is neither cancelled
\* nor past its time budget starts a model call, whatever maxIterations the
\* settings hold (the budget is max(1, maxIterations)).
C21_AtLeastOneModelCall ==
    [][(/\ pc = "boundary" /\ pc' # "boundary"
        /\ iteration = 0
        /\ ~aborted
        /\ (now - loopStartTime) < LoopTimeout)
       => (pc' = "streaming" /\ modelCalls' = modelCalls + 1)]_vars

\* C22: when the loop ends without an answer of the model, run() ends with
\* exactly one outcome: with the signal set, the interrupted message, or the
\* empty response and no call of the response handler when the narrator's
\* tick had handled the abort; otherwise, with the elapsed time at or beyond
\* the time budget, the time limit message; otherwise the message about the
\* maximum number of tool calls.
C22_ExitMessagePriority ==
    [][(pc = "boundary" /\ pc' = "returned") =>
          /\ ~thrown' /\ errorNotices' = errorNotices
          /\ IF aborted /\ abortHandledByTimer
             THEN IsEmptyText(result') /\ responses' = responses
             ELSE /\ responses' = Append(responses, result')
                  /\ result'.text =
                        IF aborted THEN "The response was interrupted."
                        ELSE IF (now - loopStartTime) >= LoopTimeout THEN "time limit"
                        ELSE "maximum number of tool calls"]_vars

\* the loop has ended at a boundary where the signal was set and the time
\* budget was used up as well, after a model call: the interrupted message
C22_Witness ==
    /\ pc = "returned"
    /\ modelCalls > 0
    /\ aborted /\ ~abortHandledByTimer
    /\ (now - loopStartTime) >= LoopTimeout
    /\ result.text = "The response was interrupted."
    /\ responses = <<result>>

\* the message at position a + j answers the j-th call of the assistant
\* message at position a: a tool message of that call's tool, keyed by the
\* call's id, or by an id of its own when the call has none
AnswersCall(a, j) ==
    /\ a + j <= Len(messages)
    /\ messages[a + j].role = "tool"
    /\ messages[a + j].name = messages[a].calls[j].name
    /\ messages[a + j].id # 0
    /\ messages[a].calls[j].id # 0 => messages[a + j].id = messages[a].calls[j].id

\* C23: (1) a tool execution is started only when every execution started
\* before it has delivered its message, so at most one is in flight; (2)
\* while the calls of an iteration are worked through, the message list ends
\* with the assistant message of the iteration followed by one result per
\* call already executed, in the order of the calls, each keyed by its call;
\* (3) when the loop leaves the calls with the signal not set, every call of
\* the iteration has its result; (4) when a model call is started, every
\* tool call of every earlier assistant message is followed by its result.
C23_SequentialToolCalls ==
    /\ [](LET toolMessages == Len(SelectSeq(messages, LAMBDA m : m.role = "tool"))
          IN toolExecs = toolMessages + (IF pc = "executing" THEN 1 ELSE 0))
    /\ [](pc \in {"toolLoop", "expanding", "executing"} =>
            LET a == Len(messages) - (tcIndex - 1)
            IN /\ a >= 1
               /\ messages[a].role = "assistant"
               /\ messages[a].calls = toolCalls
               /\ tcIndex - 1 <= Len(toolCalls)
               /\ \A j \in 1..(tcIndex - 1) : AnswersCall(a, j))
    /\ [][(pc = "toolLoop" /\ pc' = "boundary" /\ ~aborted) =>
            /\ tcIndex = Len(toolCalls) + 1
            /\ messages' = messages]_vars
    /\ [][(pc = "boundary" /\ pc' = "streaming") =>
            \A a \in 1..Len(messages) :
                messages[a].role = "assistant" =>
                    \A j \in 1..Len(messages[a].calls) : AnswersCall(a, j)]_vars

\* a second model call has been started after an iteration with two calls,
\* the second of which came without an id: the list holds the assistant
\* message, the result keyed by the first call's id and the result with a
\* generated id
C23_Witness ==
    /\ pc = "streaming"
    /\ modelCalls = 2
    /\ Len(messages) = 5
    /\ messages[3].role = "assistant" /\ Len(messages[3].calls) = 2
    /\ messages[3].calls[2].id = 0
    /\ messages[4].role = "tool" /\ messages[4].id = messages[3].calls[1].id
    /\ messages[5].role = "tool" /\ messages[5].id # 0
    /\ messages[5].name = messages[3].calls[2].name

\* C24: while a tool call made by the run is in flight and the run's signal
\* is set, the signal of the tool's handler is set.
C24_RunCancellationReachesTool ==
    (/\ lastOp # NoOp /\ lastOp.op = "executeToolSignal"
     /\ lastOp.caller = "run" /\ lastOp.phase = "called"
     /\ aborted)
    => lastOp.handlerSignal

\* C25: while tool.call is awaited, the handler's signal is set whenever the
\* deadline has passed or the signal given in options.signal is set, an
\* external signal that was set before the call included.
C25_DerivedSignal ==
    (/\ lastOp # NoOp /\ lastOp.op = "executeToolSignal"
     /\ lastOp.phase = "called"
     /\ (lastOp.at >= lastOp.timeout \/ lastOp.external = "set"))
    => lastOp.handlerSignal

\* C27: the result of every call of executeTool (success, tool not found,
\* invalid arguments, handler error, timeout) carries executionTimeMs.
C27_ExecutionTimeAlwaysRecorded ==
    lastOp.op = "executeTool" => lastOp.res.hasTime

\* the definitions of a registry, and the registry's order on them
DefsOf(reg) == {reg[i] : i \in 1..Len(reg)}
KeepsOrder(before, after) ==
    \A i, j \in 1..Len(after) :
        i < j => IndexOf(before, after[i].id) < IndexOf(before, after[j].id)

\* C28: clearMCPTools leaves exactly the definitions whose category is not
\* mcp, each unchanged and in the order they had; clearBuiltins leaves
\* exactly the definitions of category mcp, each unchanged and in the order
\* they had; in every state of the registry.
C28_ClearByCategory ==
    /\ [][lastOp'.op = "clearMCPTools" =>
            /\ DefsOf(tools') = {d \in DefsOf(tools) : d.category # "mcp"}
            /\ Len(tools') = Cardinality(DefsOf(tools'))
            /\ KeepsOrder(tools, tools')]_vars
    /\ [][lastOp'.op = "clearBuiltins" =>
            /\ DefsOf(tools') = {d \in DefsOf(tools) : d.category = "mcp"}
            /\ Len(tools') = Cardinality(DefsOf(tools'))
            /\ KeepsOrder(tools, tools')]_vars

\* clearBuiltins has run on a registry with tools of both kinds: the two mcp
\* tools are what is left
C28_Witness ==
    /\ lastOp.op = "clearBuiltins"
    /\ Len(tools) = 2
    /\ tools[1].category = "mcp" /\ tools[2].category = "mcp"

\* C29: once a run whose narrator was started has returned, by whatever path
\* (answer of the model, iteration or time budget used up, cancellation seen
\* by the loop or by the narrator's tick, exception caught by run()), the
\* tick timer is cancelled and the status is not reasoning, and nothing is
\* pushed through the update callback from then on.
C29_NarratorStoppedOnExit ==
    /\ []((pc = "returned" /\ status # "idle") =>
             (~timerActive /\ status \in {"complete", "collapsed"}))
    /\ [][pc = "returned" => lastUpdate' = lastUpdate]_vars

\* a run that ended in the catch block of run() after the narrator had added
\* steps for a tool call: the timer is cancelled, the status is collapsed
C29_Witness ==
    /\ pc = "returned"
    /\ errorNotices # <<>>
    /\ toolExecs > 0
    /\ ~timerActive
    /\ status = "collapsed"

\* C26: in retrieval-QA mode, whatever the length of the chat history, the
\* last message of the sequence handed to the model is the user turn, and
\* its content holds the formatted retrieved documents and the citation
\* instructions.
C26_RetrievalContextReachesModel ==
    (lastOp.op = "prepareAgentConversation" /\ lastOp.isVaultQAMode) =>
        LET sent == modelInput(lastOp.messages)
            final == sent[Len(sent)]
            parts == {final.content[i] : i \in 1..Len(final.content)}
        IN /\ final.role = "human"
           /\ \E n \in 0..MaxDocs : DocumentsPart(n) \in parts
           /\ <<"citation instructions">> \in parts

\* C30: whenever no initialize() or disconnect() call is in progress, however
\* the calls made so far overlapped: every client that was connected is in
\* the manager's client map or was closed; the handler of every mcp tool of
\* the registry calls a client that is in the map and was not closed; and
\* getToolCount() is the number of mcp tools of the registry.
C30_ConnectionBookkeeping ==
    (\A c \in OverlapCalls : mcp.call[c].pc \in {"idle", "done"}) =>
        /\ \A k \in mcp.connected : k \in TrackedClients(mcp) \/ k \in mcp.closed
        /\ \A id \in MCPIds(tools) :
              /\ id \in DOMAIN mcp.binding
              /\ mcp.binding[id] \in TrackedClients(mcp)
              /\ mcp.binding[id] \notin mcp.closed
        /\ Cardinality(mcp.registeredToolIds) = Cardinality(MCPIds(tools))

====
